---- MODULE Spec2Model ----
(***************************************************************************)
(* A model of pp_data_collection's raw-data pipeline:                      *)
(*   utils/number_array.py      interval_intersection (the interval sweep) *)
(*   raw_process/task.py        Task.run and the methods it calls          *)
(*   raw_process/recording_device.py  the four recording devices           *)
(* Timestamps are integer milliseconds, as in the code.                    *)
(***************************************************************************)
EXTENDS Integers, Sequences, FiniteSets, TLC

VARIABLES
    \* ---- interval_intersection (utils/number_array.py) ----
    intervals,      \* the argument: a sequence of interval lists
    pos_indices,    \* the cursor of every list (0-based, as in the code)
    result,         \* the accumulated result list
    sweep_pc,       \* "call", "loop", "returned", "raised"; "idle" outside the sweep
    iterations,     \* number of loop iterations executed so far
    tie_seen,       \* some iteration found several lists sharing the smallest end
    \* ---- what Task is given: configuration, collection log, raw folder ----
    config,             \* device configuration (sampling rates, gap thresholds, formats)
    log_df,             \* rows of the collection log, in log order
    day_offset_dict,    \* date -> device id -> offset (msec)
    session_offset_dict,\* session number -> device id -> offset (msec)
    raw_files,          \* files of the raw folder, in glob order
    \* ---- the processed folder ----
    processed,          \* the set of files that exist in the processed folder
    \* ---- Task.run (raw_process/task.py) ----
    pc,                 \* "new", "ready", "config_error", "loop", "trim", "done", "raised"
    raised,             \* the error that ended the construction or the run
    run_no,             \* how many times run() has been started
    all_files_start_end_tss, \* file -> (start, end) with the day offset
    files_matched,      \* files matched to a session so far
    num_processed_sessions,
    num_processed_raw_files,
    row,                \* position in log_df of the session being processed
    session_df,         \* the matched files of the current session
    all_sensor_ts_segments, \* the lists handed to interval_intersection for it
    subsessions_ts,     \* the sub-sessions of the current session
    dev_idx,            \* position in session_df of the file being trimmed
    sub_idx,            \* position in subsessions_ts of the next trim
    saved_file,
    num_processed_files,
    mismatched,         \* files named in the end-of-run warning
    \* ---- history of the run, kept for the properties ----
    last_trim,          \* what the most recent trim_raw call did
    trims_in_session,   \* trim_raw calls made for the current session
    writes_in_run,      \* files written by the current run
    first_run_processed,\* the processed folder when the first run ended
    rows_entered,       \* rows whose files were matched in this run
    rows_finished,      \* rows whose trimming loop completed in this run
    empty_rows,         \* rows of this run whose intersection was empty
    skipped_types,      \* device types for which trim_raw has skipped an existing file
    session_log,        \* per row trimmed in this run: its sub-sessions, the number of
                        \* its matched files, the destinations asked of trim_raw, the
                        \* number of trim_raw calls and of files written
    \* ---- interpolate_numeric_df (utils/dataframe.py) ----
    interp_df,          \* the argument: [ts |-> timestamp column, cols |-> value columns]
    new_timestamp,      \* the argument: the timestamps to evaluate at
    new_df,             \* the value columns of the result built so far
    interp_pc,          \* "call", "columns", "returned"; "idle" outside the call
    \* ---- two processes in trim_raw for one output_path ----
    worker_pc,          \* worker -> its position in trim_raw
    worker_device,      \* the device type of the file both workers trim
    dest_writes,        \* the workers that have written the destination, in order
    checked_after       \* worker -> number of writes done when it last found the
                        \* destination absent

sweep_vars == <<intervals, pos_indices, result, sweep_pc, iterations, tie_seen>>

input_vars == <<config, log_df, day_offset_dict, session_offset_dict, raw_files>>

run_vars ==
    <<pc, raised, run_no, all_files_start_end_tss, files_matched, num_processed_sessions,
      num_processed_raw_files, row, session_df, all_sensor_ts_segments, subsessions_ts,
      dev_idx, sub_idx, saved_file, num_processed_files, mismatched>>

history_vars ==
    <<last_trim, trims_in_session, writes_in_run, first_run_processed, rows_entered,
      rows_finished, empty_rows, skipped_types, session_log>>

interp_vars == <<interp_df, new_timestamp, new_df, interp_pc>>

worker_vars == <<worker_pc, worker_device, dest_writes, checked_after>>

vars == <<sweep_vars, input_vars, processed, run_vars, history_vars, interp_vars,
          worker_vars>>

(***************************************************************************)
(* Bounds of the model                                                     *)
(***************************************************************************)
MaxWorkers == 2     \* processes in trim_raw for one destination

MaxRawT == 3        \* raw and target timestamps of an interpolated DF are 0..MaxRawT

MaxLists == 2       \* interval lists in one exhaustively generated call
MaxTotalSegs == 4   \* segments over all lists of one exhaustively generated call
MaxT == 3           \* generated timestamps are 0..MaxT

(***************************************************************************)
(* Generic helpers                                                         *)
(***************************************************************************)
Max(a, b) == IF a >= b THEN a ELSE b

Min(a, b) == IF a <= b THEN a ELSE b

Abs(a) == IF a >= 0 THEN a ELSE -a

\* max(...) / min(...) of a non-empty sequence of integers
SeqMax(s) == CHOOSE m \in {s[i] : i \in 1..Len(s)} : \A i \in 1..Len(s) : s[i] <= m

SeqMin(s) == CHOOSE m \in {s[i] : i \in 1..Len(s)} : \A i \in 1..Len(s) : s[i] >= m

\* the k-th smallest element of a set of integers
Kth(S, k) == CHOOSE x \in S : Cardinality({y \in S : y < x}) = k - 1

\* np.argmin: the FIRST position of the minimum (1-based here)
ArgMin(s) ==
    CHOOSE i \in 1..Len(s) : s[i] = SeqMin(s) /\ \A j \in 1..(i - 1) : s[j] # s[i]

(***************************************************************************)
(* Interval lists: the inputs of interval_intersection.  A list is sorted  *)
(* and its segments are separated (end < next start), each segment has     *)
(* start <= end.                                                           *)
(***************************************************************************)
IsIntervalList(l) ==
    /\ \A k \in 1..Len(l) : l[k][1] <= l[k][2]
    /\ \A k \in 1..(Len(l) - 1) : l[k][2] < l[k + 1][1]

\* the interval list whose segments cover the timestamps P, consecutive timestamps
\* t, t+1 being in the same segment exactly when t is in J
ListOf(P, J) ==
    LET starts == {t \in P : (t - 1) \notin J}
        ends == {t \in P : t \notin J}
    IN  [k \in 1..Cardinality(starts) |-> <<Kth(starts, k), Kth(ends, k)>>]

\* every interval list with timestamps in 0..MaxT and at most MaxTotalSegs segments
GenLists ==
    {l \in UNION {{ListOf(P, J) : J \in SUBSET {t \in P : t + 1 \in P}}
                  : P \in SUBSET (0..MaxT)} : Len(l) <= MaxTotalSegs}

RECURSIVE TotalSegs(_)
TotalSegs(ivs) == IF ivs = <<>> THEN 0 ELSE Len(Head(ivs)) + TotalSegs(Tail(ivs))

\* the tuples of n generated lists holding at most MaxTotalSegs segments together
TuplesOf(n) == {ivs \in [1..n -> GenLists] : TotalSegs(ivs) <= MaxTotalSegs}

\* recordings of three devices over 0..3: whole, interrupted, late start, early end,
\* a single sample, nothing usable
DevicePatterns ==
    { << <<0, 3>> >>, << <<0, 1>>, <<2, 3>> >>, << <<1, 3>> >>, << <<0, 2>> >>,
      << <<0, 1>> >>, << <<3, 3>> >>, <<>> }

\* the two worked examples of the documentation
ExampleABC == << <<<<0, 100>>>>, <<<<0, 40>>, <<60, 100>>>>, <<<<10, 90>>>> >>

ExampleDisjoint == << <<<<0, 5>>>>, <<<<6, 10>>>> >>

SweepInputs ==
    UNION {TuplesOf(n) : n \in 0..MaxLists}
        \cup [1..3 -> DevicePatterns]
        \cup {ExampleABC, ExampleDisjoint}

(***************************************************************************)
(* interval_intersection, lines 24-44: the loop, one iteration at a time   *)
(***************************************************************************)
\* line 27
all_len(ivs) == [i \in 1..Len(ivs) |-> Len(ivs[i])]

\* line 30: np.all(pos_indices < all_len)
InBounds(ivs, pos) == \A i \in 1..Len(ivs) : pos[i] < Len(ivs[i])

\* a variant of lo that reads the first list only instead of taking the max
loFirst(ivs, pos) == ivs[1][pos[1] + 1][1]

\* line 32
lo(ivs, pos) == SeqMax([i \in 1..Len(ivs) |-> ivs[i][pos[i] + 1][1]])

\* line 34
endpoints(ivs, pos) == [i \in 1..Len(ivs) |-> ivs[i][pos[i] + 1][2]]

\* a variant of hi that reads the first list only instead of taking the min
hiFirst(ivs, pos) == ivs[1][pos[1] + 1][2]

\* line 35
hi(ivs, pos) == SeqMin(endpoints(ivs, pos))

\* a variant of the emission test that also emits single-point overlaps
EmitsLe(ivs, pos) == lo(ivs, pos) <= hi(ivs, pos)

\* the lists whose current interval has the smallest end (line 42 picks among them)
TiedLists(ivs, pos) ==
    {i \in 1..Len(ivs) : endpoints(ivs, pos)[i] = hi(ivs, pos)}

\* line 38
Emits(ivs, pos) == lo(ivs, pos) < hi(ivs, pos)

\* lines 38-39
NextResult(ivs, pos, res) ==
    IF Emits(ivs, pos) THEN Append(res, <<lo(ivs, pos), hi(ivs, pos)>>) ELSE res

\* a variant of line 42 that moves no cursor
AdvanceNone(ivs, pos) == pos

\* a variant of line 42 that moves every list sharing the smallest end
AdvanceAllTied(ivs, pos) ==
    [i \in 1..Len(pos) |-> IF i \in TiedLists(ivs, pos) THEN pos[i] + 1 ELSE pos[i]]

\* line 42
Advance(ivs, pos) ==
    [pos EXCEPT ![ArgMin(endpoints(ivs, pos))] = @ + 1]

\* lines 30-44 run to completion from a given loop state
RECURSIVE SweepFrom(_, _, _)
SweepFrom(ivs, pos, res) ==
    IF InBounds(ivs, pos)
    THEN SweepFrom(ivs, Advance(ivs, pos), NextResult(ivs, pos, res))
    ELSE res

\* the whole function for a non-empty argument (lines 21-44)
interval_intersection(ivs) ==
    IF Len(ivs) = 1 THEN ivs[1]
    ELSE SweepFrom(ivs, [i \in 1..Len(ivs) |-> 0], <<>>)

(***************************************************************************)
(* constants.py                                                            *)
(***************************************************************************)
CAMERA == "cam"

WATCH == "watch"

SENSOR_LOGGER == "sensorlogger"

TIMER_APP == "timerapp"

DeviceTypes == {CAMERA, WATCH, SENSOR_LOGGER, TIMER_APP}

\* LogColumn.SENSOR_COLS: "<data type> <device type>", in column order
SENSOR_COLS ==
    << [data_type |-> "Mounted_RGB", device_type |-> CAMERA],
       [data_type |-> "Handheld_RGB", device_type |-> CAMERA],
       [data_type |-> "Phone_inertia", device_type |-> SENSOR_LOGGER],
       [data_type |-> "Wrist_inertia", device_type |-> WATCH],
       [data_type |-> "Online_label", device_type |-> TIMER_APP] >>

\* a blank cell of the log (pd.isna)
NA == "NA"

(***************************************************************************)
(* A raw file is a record                                                  *)
(*   [date, device_id, device_type, data_file, ts, ts2]                    *)
(* cam:          ts = <<start encoded in the file name, round(length*1000)>>*)
(* timerapp:     ts = <<start of the first row, end of the last row>>      *)
(* watch:        ts = the timestamp column                                 *)
(* sensorlogger: ts = the gyroscope timestamps, ts2 = the accelerometer    *)
(*               timestamps (msec)                                         *)
(***************************************************************************)

\* recording_device.py: _get_start_end_timestamp_wo_offset of the four devices
get_start_end_timestamp_wo_offset(f) ==
    CASE f.device_type = CAMERA -> <<f.ts[1], f.ts[1] + f.ts[2]>>
      [] f.device_type = TIMER_APP -> <<f.ts[1], f.ts[2]>>
      [] f.device_type = WATCH -> <<f.ts[1], f.ts[Len(f.ts)]>>
      [] f.device_type = SENSOR_LOGGER ->
            <<Max(Max(-1, f.ts[1]), f.ts2[1]), Min(f.ts[Len(f.ts)], f.ts2[Len(f.ts2)])>>

\* a variant that forgets the offset
get_start_end_timestamp_no_offset(f, offset) == get_start_end_timestamp_wo_offset(f)

\* RecordingDevice.get_start_end_timestamp_w_offset
get_start_end_timestamp_w_offset(f, offset) ==
    LET se == get_start_end_timestamp_wo_offset(f)
    IN  IF offset # 0 THEN <<se[1] + offset, se[2] + offset>> ELSE se

\* _get_raw_ts_array: the watch's timestamp column, the phone's gyroscope timestamps
get_raw_ts_array(f) == f.ts

\* the result None of split_interrupted_ts
NoSplit == [none |-> TRUE, segs |-> <<>>]

\* a variant that also splits at a difference equal to max_time_gap
InertialSplitAtGap(ts, max_time_gap, min_session_len) ==
    LET cuts == {i \in 1..(Len(ts) - 1) : ts[i + 1] - ts[i] >= max_time_gap}
        starts == {1} \cup {i + 1 : i \in cuts}
        ends == cuts \cup {Len(ts)}
        all == [j \in 1..Cardinality(starts) |->
                    <<ts[Kth(starts, j)], ts[Kth(ends, j)]>>]
    IN  IF cuts = {} THEN NoSplit
        ELSE [none |-> FALSE,
              segs |-> SelectSeq(all, LAMBDA seg : seg[2] - seg[1] >= min_session_len)]

\* InertialSensor._split_interrupted_ts
InertialSplit(ts, max_time_gap, min_session_len) ==
    LET cuts == {i \in 1..(Len(ts) - 1) : ts[i + 1] - ts[i] > max_time_gap}
        starts == {1} \cup {i + 1 : i \in cuts}
        ends == cuts \cup {Len(ts)}
        all == [j \in 1..Cardinality(starts) |->
                    <<ts[Kth(starts, j)], ts[Kth(ends, j)]>>]
    IN  IF cuts = {} THEN NoSplit
        ELSE [none |-> FALSE,
              segs |-> SelectSeq(all, LAMBDA seg : seg[2] - seg[1] >= min_session_len)]

\* RecordingDevice.split_interrupted_ts of the four devices
split_interrupted_ts(f, cfg) ==
    IF f.device_type \in {WATCH, SENSOR_LOGGER}
    THEN InertialSplit(get_raw_ts_array(f), cfg.max_time_gap, cfg.min_session_len)
    ELSE NoSplit

(***************************************************************************)
(* utils/time.py and the session matching of Task                          *)
(***************************************************************************)
\* datetime_2_timestamp: a datetime is (day number, second of the day)
datetime_2_timestamp(day, sec, tz) == ((day * 86400 + sec) - tz * 3600) * 1000

\* a variant that keeps the end on the logged date
log_start_end_ts_same_day(r, tz) ==
    <<datetime_2_timestamp(r.date, r.start_time, tz),
      datetime_2_timestamp(r.date, r.end_time, tz)>>

\* task.py 111-120: the logged bounds, the end moved to the next day when it
\* is earlier than the start
log_start_end_ts(r, tz) ==
    LET end_sec == IF r.start_time > r.end_time THEN r.end_time + 86400 ELSE r.end_time
    IN  <<datetime_2_timestamp(r.date, r.start_time, tz),
          datetime_2_timestamp(r.date, end_sec, tz)>>

\* task.py 133-135: glob of RAW_PATTERN, the candidates in glob order
file_paths(files, date, device_id, device_type) ==
    SelectSeq([i \in 1..Len(files) |-> i],
              LAMBDA i : /\ files[i].date = date
                         /\ files[i].device_id = device_id
                         /\ files[i].device_type = device_type)

\* task.py 140: |candidate - logged|, per candidate (start difference, end difference)
diff(paths, tss, log_ts) ==
    [k \in 1..Len(paths) |->
        <<Abs(tss[paths[k]][1] - log_ts[1]), Abs(tss[paths[k]][2] - log_ts[2])>>]

\* a variant of the choice that takes the last candidate of minimal sum
sensor_idx_last(d) ==
    LET sums == [k \in 1..Len(d) |-> d[k][1] + d[k][2]]
    IN  CHOOSE i \in 1..Len(d) :
            sums[i] = SeqMin(sums) /\ \A j \in (i + 1)..Len(d) : sums[j] # sums[i]

\* task.py 141: np.argmin(diff.sum(axis=1))
sensor_idx(d) == ArgMin([k \in 1..Len(d) |-> d[k][1] + d[k][2]])

\* the tolerance of the assertion of task.py 144, in seconds
MatchTolerance == 180

\* a variant of the assertion that accepts a difference of exactly the tolerance
within_tolerance_le(d) ==
    d[1] <= MatchTolerance * 1000 /\ d[2] <= MatchTolerance * 1000

\* task.py 142-144: np.all(diff / 1000 < 180)
within_tolerance(d) ==
    d[1] < MatchTolerance * 1000 /\ d[2] < MatchTolerance * 1000

\* a variant of the match that takes the first candidate within the tolerance when
\* the closest one is outside it
match_role_any_within(r, c, files, tss, tz) ==
    LET paths == file_paths(files, r.date, r.sensors[c], SENSOR_COLS[c].device_type)
        d == diff(paths, tss, log_start_end_ts(r, tz))
        ok == {i \in 1..Len(paths) : within_tolerance(d[i])}
        k == IF ok = {} \/ within_tolerance(d[sensor_idx(d)]) THEN sensor_idx(d)
             ELSE Kth(ok, 1)
    IN  IF Len(paths) = 0
        THEN [error |-> "ValueError: operands could not be broadcast", col |-> c,
              file |-> 0, diff |-> <<0, 0>>]
        ELSE IF ~within_tolerance(d[k])
        THEN [error |-> "AssertionError: Matched file has too big difference gap",
              col |-> c, file |-> paths[k], diff |-> d[k]]
        ELSE [error |-> "", col |-> c, file |-> paths[k], diff |-> d[k]]

\* task.py 124-153, one sensor column c of row r (device id not blank):
\* the record appended to result_df, or the error raised
match_role(r, c, files, tss, tz) ==
    LET paths == file_paths(files, r.date, r.sensors[c], SENSOR_COLS[c].device_type)
        d == diff(paths, tss, log_start_end_ts(r, tz))
        k == sensor_idx(d)
    IN  IF Len(paths) = 0
        THEN [error |-> "ValueError: operands could not be broadcast", col |-> c,
              file |-> 0, diff |-> <<0, 0>>]
        ELSE IF ~within_tolerance(d[k])
        THEN [error |-> "AssertionError: Matched file has too big difference gap",
              col |-> c, file |-> paths[k], diff |-> d[k]]
        ELSE [error |-> "", col |-> c, file |-> paths[k], diff |-> d[k]]

\* the row of result_df for a successful match
df_row(r, m, files, tss) ==
    [device_type |-> SENSOR_COLS[m.col].device_type,
     device_id |-> r.sensors[m.col],
     data_type |-> SENSOR_COLS[m.col].data_type,
     start_ts |-> tss[m.file][1],
     end_ts |-> tss[m.file][2],
     file_path |-> m.file]

\* a variant of the loop that leaves out a column that fails and goes on
RECURSIVE find_from_collect(_, _, _, _, _, _)
find_from_collect(r, c, df, files, tss, tz) ==
    IF c > Len(SENSOR_COLS) THEN [error |-> "", df |-> df, failed |-> <<>>]
    ELSE IF r.sensors[c] = NA THEN find_from_collect(r, c + 1, df, files, tss, tz)
    ELSE LET m == match_role(r, c, files, tss, tz)
         IN  IF m.error # "" THEN find_from_collect(r, c + 1, df, files, tss, tz)
             ELSE find_from_collect(r, c + 1, Append(df, df_row(r, m, files, tss)),
                                    files, tss, tz)

\* Task.find_data_files_of_session from column c on: the loop stops at the
\* first column that raises
RECURSIVE find_from(_, _, _, _, _, _)
find_from(r, c, df, files, tss, tz) ==
    IF c > Len(SENSOR_COLS) THEN [error |-> "", df |-> df, failed |-> <<>>]
    ELSE IF r.sensors[c] = NA THEN find_from(r, c + 1, df, files, tss, tz)
    ELSE LET m == match_role(r, c, files, tss, tz)
         IN  IF m.error # "" THEN [error |-> m.error, df |-> df, failed |-> <<m>>]
             ELSE find_from(r, c + 1, Append(df, df_row(r, m, files, tss)), files, tss, tz)

\* Task.find_data_files_of_session
find_data_files_of_session(r, files, tss, tz) == find_from(r, 1, <<>>, files, tss, tz)

\* a variant without the fallback of line 178
sensor_segments_no_fallback(e, files, cfg) == split_interrupted_ts(files[e.file_path], cfg).segs

\* task.py 176-178: the interval list of one matched sensor file
sensor_segments(e, files, cfg) ==
    LET sp == split_interrupted_ts(files[e.file_path], cfg)
    IN  IF sp.none THEN << <<e.start_ts, e.end_ts>> >> ELSE sp.segs

\* a variant that keeps the label tool among the sensors
sensors_and_label(df) == df

\* task.py 172: the label tool is left out of the intersection
sensors_of(df) == SelectSeq(df, LAMBDA e : e.device_type # TIMER_APP)

\* task.py 174-179
segments_of_session(df, files, cfg) ==
    LET sdf == sensors_of(df)
    IN  [k \in 1..Len(sdf) |-> sensor_segments(sdf[k], files, cfg)]

\* Task.count_day_subject: dense rank of the date among the subject's dates
ith_day(rows, k) ==
    1 + Cardinality({rows[j].date : j \in {i \in 1..Len(rows) :
                        rows[i].subject = rows[k].subject /\ rows[i].date < rows[k].date}})

(***************************************************************************)
(* Trimming: RecordingDevice.trim_raw and the devices' _trim_data_with_offset *)
(***************************************************************************)
\* a variant of the pattern without the sub-session bounds
output_path_no_bounds(r, rows, k, data_type, sub) ==
    [setup_id |-> r.setup, data_type |-> data_type, subject_id |-> r.subject,
     ith_day |-> ith_day(rows, k), start_ts |-> 0, end_ts |-> 0]

\* PROCESSED_PATTERN plus the extension added by check_output_path
output_path(r, rows, k, data_type, sub) ==
    [setup_id |-> r.setup, data_type |-> data_type, subject_id |-> r.subject,
     ith_day |-> ith_day(rows, k), start_ts |-> sub[1], end_ts |-> sub[2]]

with_extension(path, device_type, cfg) ==
    [setup_id |-> path.setup_id, data_type |-> path.data_type,
     subject_id |-> path.subject_id, ith_day |-> path.ith_day,
     start_ts |-> path.start_ts, end_ts |-> path.end_ts,
     ext |-> cfg.output_format[device_type]]

\* a variant of check_output_path that never finds the file
never_exists(path, folder) == FALSE

\* check_output_path 90: os.path.exists
exists(path, folder) == path \in folder

\* a variant that leaves out the sub-session's last grid point
new_ts_len_open(start_ts, end_ts, rate) ==
    Max(0, ((end_ts - start_ts) * rate) \div 1000)

\* Watch / PhoneSensorLogger _trim_data_with_offset: the length of new_ts,
\* floor((end_ts - start_ts) * sampling_rate / 1000 + 1), nothing when not positive
new_ts_len(start_ts, end_ts, rate) ==
    Max(0, ((end_ts - start_ts) * rate) \div 1000 + 1)

\* the i-th (0-based) entry of new_ts
new_ts(i, start_ts, rate) == start_ts + (i * 1000) \div rate

\* TimestampCamera._trim_data_with_offset 267-268, in msec
start_sec(start_ts, video_start_ts) == Max(start_ts - video_start_ts, 0)

end_sec(end_ts, video_start_ts, video_end_ts) == Min(end_ts, video_end_ts) - video_start_ts

\* utils/video.py 18: assert start_sec or end_sec
ffmpeg_asserts(ss, es) == ss # 0 \/ es # 0

\* the domains (first, last timestamp) of the raw tables an inertial trim
\* interpolates, after _add_offset_to_data
raw_domains(f, offset) ==
    IF f.device_type = WATCH THEN << <<f.ts[1] + offset, f.ts[Len(f.ts)] + offset>> >>
    ELSE IF f.device_type = SENSOR_LOGGER
    THEN << <<f.ts[1] + offset, f.ts[Len(f.ts)] + offset>>,
            <<f.ts2[1] + offset, f.ts2[Len(f.ts2)] + offset>> >>
    ELSE <<>>

NoTrim ==
    [called |-> FALSE, device_type |-> "", file |-> 0, path |-> <<>>, existed |-> FALSE,
     steps |-> <<>>, returned |-> "", wrote |-> FALSE, start_ts |-> 0, end_ts |-> 0,
     offset |-> 0, n_new_ts |-> 0, rate |-> 1, domains |-> <<>>, start_sec |-> 0,
     end_sec |-> 0, video_len |-> 0, run |-> 0, row |-> 0]

\* RecordingDevice.trim_raw: what one call does, given the processed folder
trim_raw(f, path, start_ts, end_ts, offset, cfg, folder) ==
    LET out == with_extension(path, f.device_type, cfg)
        vid == get_start_end_timestamp_w_offset(f, offset)
        ss == start_sec(start_ts, vid[1])
        es == end_sec(end_ts, vid[1], vid[2])
        inertial == f.device_type \in {WATCH, SENSOR_LOGGER}
        rate == IF inertial THEN cfg.sampling_rate[f.device_type] ELSE 1
        base == [NoTrim EXCEPT !.called = TRUE, !.device_type = f.device_type,
                               !.path = <<out>>, !.start_ts = start_ts,
                               !.end_ts = end_ts, !.offset = offset]
    IN  IF exists(out, folder)
        THEN [base EXCEPT !.existed = TRUE, !.steps = <<"check_output_path">>,
                          !.returned = "None"]
        ELSE LET ran == [base EXCEPT
                            !.steps = <<"check_output_path", "_read_raw_data",
                                        "_add_offset_to_data", "_trim_data_with_offset">>,
                            !.n_new_ts = IF inertial
                                         THEN new_ts_len(start_ts, end_ts, rate) ELSE 0,
                            !.rate = rate,
                            !.domains = raw_domains(f, offset),
                            !.start_sec = IF f.device_type = CAMERA THEN ss ELSE 0,
                            !.end_sec = IF f.device_type = CAMERA THEN es ELSE 0,
                            !.video_len = IF f.device_type = CAMERA THEN f.ts[2] ELSE 0]
             IN  IF f.device_type = CAMERA /\ ~ffmpeg_asserts(ss, es)
                 THEN [ran EXCEPT !.returned = "AssertionError: No start/end time provided!"]
                 ELSE [ran EXCEPT !.returned = "path", !.wrote = TRUE]

\* utils/video.py 22-30: ffmpeg is given a start inside the video and, when an end
\* is given, a positive duration -t
cut_is_defined(ss, es, video_len) == ss <= video_len /\ (es = 0 \/ es > ss)

\* what a trim_raw call may do: ffmpeg run on a start beyond the video or on a
\* duration that is not positive may exit normally, or fail (moviepy's
\* subprocess_call then raises IOError) with or without leaving the output file
trim_outcomes(t) ==
    IF /\ t.device_type = CAMERA
       /\ t.returned = "path"
       /\ ~cut_is_defined(t.start_sec, t.end_sec, t.video_len)
    THEN {t, [t EXCEPT !.returned = "IOError: ffmpeg"],
          [t EXCEPT !.returned = "IOError: ffmpeg", !.wrote = FALSE]}
    ELSE {t}

(***************************************************************************)
(* Inputs of the runs that are explored                                    *)
(***************************************************************************)
\* data_timezone passed by script/raw_2_processed_data.py
DataTimezone == 7

\* a valid device configuration, and one whose watch rate does not divide 1000
GoodConfig ==
    [sampling_rate |-> [t \in {WATCH, SENSOR_LOGGER} |-> 1],
     max_time_gap |-> 1000,
     min_session_len |-> 2000,
     output_format |-> [t \in DeviceTypes |-> IF t = CAMERA THEN ".mp4" ELSE ".csv"]]

BadConfig == [GoodConfig EXCEPT !.sampling_rate[WATCH] = 33]

\* one whose phone rate does not divide 1000
BadPhoneConfig == [GoodConfig EXCEPT !.sampling_rate[SENSOR_LOGGER] = 3]

BadConfigs == {BadConfig, BadPhoneConfig}

\* a valid configuration with other rates: the watch at 4 Hz, the phone at 8 Hz
FastConfig == [GoodConfig EXCEPT !.sampling_rate[WATCH] = 4,
                                 !.sampling_rate[SENSOR_LOGGER] = 8]

\* one sample per second from a to b
Samples(a, b) == [i \in 1..((b - a) \div 1000 + 1) |-> a + (i - 1) * 1000]

\* session k is logged on day 1 from second 1000 * k to six seconds later
LoggedStart(k) == datetime_2_timestamp(1, 1000 * k, DataTimezone)

AllSensors == <<"c1", NA, "p1", "w1", "p1">>

SensorSetups ==
    {AllSensors,
     <<NA, "c1", NA, "w1", NA>>,
     <<NA, NA, NA, "w1", "p1">>,
     <<NA, NA, NA, "w1", NA>>,
     <<NA, NA, NA, NA, "p1">>,
     <<NA, NA, NA, NA, NA>>}

WatchVariants == {"exact", "gap", "gap_drop", "short_segments", "late"}

CamVariants == {"exact", "start_179999", "start_180000", "start_180001", "end_180000", "short"}

CamExtras == {"none", "tie_after", "tie_before", "wide"}

PhoneVariants == {"exact", "acce_late", "gyro_gap_acce_late"}

LabelVariants == {"inside", "before", "wide"}

PlainVariant ==
    [sensors |-> AllSensors, watch |-> "exact", cam |-> "exact", extra |-> "none",
     phone |-> "exact", label |-> "inside"]

VariantFields == {"sensors", "watch", "cam", "extra", "phone", "label"}

\* the variants of a session that differ from the plain one in at most two respects
SessionVariants ==
    {v \in [sensors : SensorSetups, watch : WatchVariants, cam : CamVariants,
            extra : CamExtras, phone : PhoneVariants, label : LabelVariants] :
        \E x, y \in VariantFields :
            \A z \in VariantFields \ {x, y} : v[z] = PlainVariant[z]}

File(device_id, device_type, name, ts, ts2) ==
    [date |-> 1, device_id |-> device_id, device_type |-> device_type,
     data_file |-> name, ts |-> ts, ts2 |-> ts2]

WatchTs(v, b) ==
    CASE v = "exact" -> Samples(b, b + 6000)
      [] v = "gap" -> Samples(b, b + 2000) \o Samples(b + 4000, b + 6000)
      [] v = "gap_drop" -> Samples(b, b + 3000) \o Samples(b + 5000, b + 6000)
      [] v = "short_segments" ->
            Samples(b, b + 1000) \o Samples(b + 3000, b + 4000) \o Samples(b + 6000, b + 6000)
      [] v = "late" -> Samples(b + 3000, b + 6000)

CamTs(v, b) ==
    CASE v = "exact" -> <<b, 6000>>
      [] v = "start_179999" -> <<b - 179999, 185999>>
      [] v = "start_180000" -> <<b - 180000, 186000>>
      [] v = "start_180001" -> <<b - 180001, 186001>>
      [] v = "end_180000" -> <<b, 186000>>
      [] v = "short" -> <<b + 1000, 2000>>

CamExtraTs(v, b) ==
    IF v = "wide" THEN <<b - 100000, 206000>> ELSE <<b + 2000, 2000>>

\* the label file: inside the recordings, over before they start, or around them
LabelTs(v, b) ==
    CASE v = "inside" -> <<b + 1000, b + 5000>>
      [] v = "before" -> <<b - 100000, b - 50000>>
      [] v = "wide" -> <<b - 10000, b + 16000>>

\* the raw files recorded for session k, which starts at b, in glob order
SessionFilesAt(k, b, v) ==
    LET main == <<File("c1", CAMERA, <<k, "video">>, CamTs(v.cam, b), <<>>)>>
        extra == <<File("c1", CAMERA, <<k, "video2">>, CamExtraTs(v.extra, b), <<>>)>>
        cams == CASE v.extra = "none" -> main
                  [] v.extra = "tie_before" -> extra \o main
                  [] OTHER -> main \o extra
        gyro == IF v.phone = "gyro_gap_acce_late"
                THEN Samples(b, b + 2000) \o Samples(b + 4000, b + 6000)
                ELSE Samples(b, b + 6000)
        acce == IF v.phone = "exact" THEN Samples(b, b + 6000)
                ELSE Samples(b + 1000, b + 6000)
    IN  cams \o
        << File("p1", SENSOR_LOGGER, <<k, "inertia">>, gyro, acce),
           File("w1", WATCH, <<k, "watch">>, WatchTs(v.watch, b), <<>>),
           File("p1", TIMER_APP, <<k, "labels">>, LabelTs(v.label, b), <<>>) >>

SessionFiles(k, v) == SessionFilesAt(k, LoggedStart(k), v)

LogRow(k, v) ==
    [session |-> k, setup |-> 1, date |-> 1, start_time |-> 1000 * k,
     end_time |-> 1000 * k + 6, subject |-> 1, sensors |-> v.sensors]

\* session k logged a minute after session k - 1, its own recordings missing
NearRow(k, v) ==
    [LogRow(k, v) EXCEPT !.start_time = 1000 * (k - 1) + 60,
                         !.end_time = 1000 * (k - 1) + 66]

\* session k logged from three seconds before midnight to three seconds after
MidnightRow(k, v) ==
    [LogRow(k, v) EXCEPT !.start_time = 86400 - 3, !.end_time = 3]

\* n sessions, the f-th being variant v and the others plain
RECURSIVE FilesOf(_, _, _)
FilesOf(n, f, v) ==
    IF n = 0 THEN <<>>
    ELSE FilesOf(n - 1, f, v) \o SessionFiles(n, IF n = f THEN v ELSE PlainVariant)

RowsOf(n, f, v) == [k \in 1..n |-> LogRow(k, IF k = f THEN v ELSE PlainVariant)]

\* a watch file in the folder of a date the log does not name
StrayFile ==
    [File("w1", WATCH, <<0, "watch">>, Samples(0, 6000), <<>>) EXCEPT !.date = 2]

\* sessions far apart each with its recordings; a session and a second one logged
\* a minute later whose recordings are missing, of the same or of another subject;
\* one session across midnight
ScenarioKinds == {"separate", "near", "near_subject", "midnight"}

ScenarioRows(kind, n, f, v) ==
    CASE kind = "separate" -> RowsOf(n, f, v)
      [] kind = "near" -> <<LogRow(1, v), NearRow(2, v)>>
      [] kind = "near_subject" -> <<LogRow(1, v), [NearRow(2, v) EXCEPT !.subject = 2]>>
      [] kind = "midnight" -> <<MidnightRow(1, v)>>

ScenarioFiles(kind, n, f, v) ==
    CASE kind = "separate" -> FilesOf(n, f, v)
      [] kind \in {"near", "near_subject"} -> SessionFiles(1, v)
      [] kind = "midnight" ->
            SessionFilesAt(1, datetime_2_timestamp(1, 86400 - 3, DataTimezone), v)
            \o <<StrayFile>>

Devices == {"c1", "p1", "w1"}

NoOffset == [d \in Devices |-> 0]

\* the watch 500 msec late and the phone 50 msec early
ClockOffsets == [NoOffset EXCEPT !["w1"] = 500, !["p1"] = -50]

\* (day offsets, session offsets): none; the watch and the phone corrected in both
\* tables; the watch corrected per day only; the camera corrected per session only
OffsetVariants ==
    { <<NoOffset, NoOffset>>,
      <<ClockOffsets, ClockOffsets>>,
      <<[NoOffset EXCEPT !["w1"] = 500], NoOffset>>,
      <<NoOffset, [NoOffset EXCEPT !["c1"] = 2000]>> }

MaxSessions == 2    \* rows of the collection log
MaxRuns == 2        \* times run() is called on the same folders

(***************************************************************************)
(* Task as a state machine                                                 *)
(***************************************************************************)
NoError == [error |-> "", col |-> 0, file |-> 0, diff |-> <<0, 0>>]

\* the locals of run() and of trim_data_files_of_session before any session
RunLocalsClear ==
    /\ all_files_start_end_tss = <<>>
    /\ files_matched = {}
    /\ num_processed_sessions = 0
    /\ num_processed_raw_files = 0
    /\ row = 0
    /\ session_df = <<>>
    /\ all_sensor_ts_segments = <<>>
    /\ subsessions_ts = <<>>
    /\ dev_idx = 0
    /\ sub_idx = 0
    /\ saved_file = FALSE
    /\ num_processed_files = 0
    /\ mismatched = {}

HistoryClear ==
    /\ last_trim = NoTrim
    /\ trims_in_session = 0
    /\ writes_in_run = 0
    /\ first_run_processed = {}
    /\ rows_entered = {}
    /\ rows_finished = {}
    /\ empty_rows = {}
    /\ skipped_types = {}
    /\ session_log = <<>>

\* the pipeline is not part of the behaviour
PipeIdle ==
    /\ config = GoodConfig
    /\ log_df = <<>>
    /\ day_offset_dict = <<>>
    /\ session_offset_dict = <<>>
    /\ raw_files = <<>>
    /\ processed = {}
    /\ pc = "idle"
    /\ raised = NoError
    /\ run_no = 0
    /\ RunLocalsClear
    /\ HistoryClear

pipe_vars == <<input_vars, processed, run_vars, history_vars>>

\* interpolate_numeric_df is not part of the behaviour
InterpIdle ==
    /\ interp_df = <<>>
    /\ new_timestamp = <<>>
    /\ new_df = <<>>
    /\ interp_pc = "idle"

\* no second process is part of the behaviour
WorkersIdle ==
    /\ worker_pc = <<>>
    /\ worker_device = ""
    /\ dest_writes = <<>>
    /\ checked_after = <<>>

(***************************************************************************)
(* The sweep as a state machine                                            *)
(***************************************************************************)
SweepIdle ==
    /\ intervals = <<>>
    /\ pos_indices = <<>>
    /\ result = <<>>
    /\ sweep_pc = "idle"
    /\ iterations = 0
    /\ tie_seen = FALSE

InitSweep ==
    /\ intervals \in SweepInputs
    /\ pos_indices = <<>>
    /\ result = <<>>
    /\ sweep_pc = "call"
    /\ iterations = 0
    /\ tie_seen = FALSE
    /\ PipeIdle
    /\ InterpIdle
    /\ WorkersIdle

\* a variant of lines 19-20 that returns an empty list instead of raising
II_ReturnEmpty ==
    /\ sweep_pc = "call"
    /\ Len(intervals) = 0
    /\ result' = <<>>
    /\ sweep_pc' = "returned"
    /\ UNCHANGED <<intervals, pos_indices, iterations, tie_seen>>
    /\ UNCHANGED <<pipe_vars, interp_vars, worker_vars>>

\* lines 19-20
II_RaiseEmpty ==
    /\ sweep_pc = "call"
    /\ Len(intervals) = 0
    /\ sweep_pc' = "raised"
    /\ UNCHANGED <<intervals, pos_indices, result, iterations, tie_seen>>
    /\ UNCHANGED <<pipe_vars, interp_vars, worker_vars>>

\* a variant of lines 21-22 that keeps only the segments the sweep would emit
\* (start < end)
II_ReturnSingleSwept ==
    /\ sweep_pc = "call"
    /\ Len(intervals) = 1
    /\ result' = SelectSeq(intervals[1], LAMBDA seg : seg[1] < seg[2])
    /\ sweep_pc' = "returned"
    /\ UNCHANGED <<intervals, pos_indices, iterations, tie_seen>>
    /\ UNCHANGED <<pipe_vars, interp_vars, worker_vars>>

\* lines 21-22
II_ReturnSingle ==
    /\ sweep_pc = "call"
    /\ Len(intervals) = 1
    /\ result' = intervals[1]
    /\ sweep_pc' = "returned"
    /\ UNCHANGED <<intervals, pos_indices, iterations, tie_seen>>
    /\ UNCHANGED <<pipe_vars, interp_vars, worker_vars>>

\* lines 24-29
II_Start ==
    /\ sweep_pc = "call"
    /\ Len(intervals) >= 2
    /\ pos_indices' = [i \in 1..Len(intervals) |-> 0]
    /\ result' = <<>>
    /\ sweep_pc' = "loop"
    /\ UNCHANGED <<intervals, iterations, tie_seen>>
    /\ UNCHANGED <<pipe_vars, interp_vars, worker_vars>>

\* lines 30-42: one iteration of the while loop
II_Step ==
    /\ sweep_pc = "loop"
    /\ InBounds(intervals, pos_indices)
    /\ result' = NextResult(intervals, pos_indices, result)
    /\ pos_indices' = Advance(intervals, pos_indices)
    /\ iterations' = iterations + 1
    /\ tie_seen' = (tie_seen \/ Cardinality(TiedLists(intervals, pos_indices)) > 1)
    /\ UNCHANGED <<intervals, sweep_pc>>
    /\ UNCHANGED <<pipe_vars, interp_vars, worker_vars>>

\* lines 30, 44: the loop condition fails and the result is returned
II_Return ==
    /\ sweep_pc = "loop"
    /\ ~InBounds(intervals, pos_indices)
    /\ sweep_pc' = "returned"
    /\ UNCHANGED <<intervals, pos_indices, result, iterations, tie_seen>>
    /\ UNCHANGED <<pipe_vars, interp_vars, worker_vars>>

NextSweep ==
    \/ II_RaiseEmpty
    \/ II_ReturnSingle
    \/ II_Start
    \/ II_Step
    \/ II_Return

SpecSweep == InitSweep /\ [][NextSweep]_vars

\* the generated lists that end before MaxT
EarlyLists == {l \in GenLists : \A k \in 1..Len(l) : l[k][2] < MaxT}

\* the calls followed to their end: tuples of early lists, the device patterns and
\* the worked examples
FairInputs ==
    UNION {{ivs \in [1..n -> EarlyLists] : TotalSegs(ivs) <= MaxTotalSegs}
           : n \in 0..MaxLists}
        \cup [1..3 -> DevicePatterns]
        \cup {ExampleABC, ExampleDisjoint}

InitSweepFair ==
    /\ intervals \in FairInputs
    /\ pos_indices = <<>>
    /\ result = <<>>
    /\ sweep_pc = "call"
    /\ iterations = 0
    /\ tie_seen = FALSE
    /\ PipeIdle
    /\ InterpIdle
    /\ WorkersIdle

\* the call runs on: nothing suspends the function between two statements
SpecSweepFair == InitSweepFair /\ [][NextSweep]_vars /\ WF_vars(NextSweep)

(***************************************************************************)
(* Task.__init__ and Task.run                                              *)
(***************************************************************************)
Init ==
    /\ SweepIdle
    /\ InterpIdle
    /\ WorkersIdle
    /\ \E kind \in ScenarioKinds, n \in 1..MaxSessions, f \in 1..MaxSessions,
          v \in SessionVariants, o \in OffsetVariants,
          c \in {GoodConfig, FastConfig} \cup BadConfigs :
        /\ f <= n
        /\ kind # "separate" => (n = 1 /\ c = GoodConfig)
        /\ c = FastConfig => (n = 1 /\ v.sensors = AllSensors /\ v.label = "inside")
        /\ o # <<NoOffset, NoOffset>> => (kind = "separate" /\ n = 1)
        /\ c \in BadConfigs => (n = 1 /\ v = PlainVariant /\ o = <<NoOffset, NoOffset>>)
        /\ config = c
        /\ log_df = ScenarioRows(kind, n, f, v)
        /\ raw_files = ScenarioFiles(kind, n, f, v)
        /\ day_offset_dict = [d \in {1} |-> o[1]]
        /\ session_offset_dict = [s \in 1..Len(ScenarioRows(kind, n, f, v)) |-> o[2]]
    /\ processed = {}
    /\ pc = "new"
    /\ raised = NoError
    /\ run_no = 0
    /\ RunLocalsClear
    /\ HistoryClear

\* a variant of the constructors without the assertion
any_rate(cfg) == TRUE

\* Watch.__init__ 389 and PhoneSensorLogger.__init__ 449
rate_divides_1000(cfg) ==
    \A t \in {WATCH, SENSOR_LOGGER} : 1000 % cfg.sampling_rate[t] = 0

\* task.py 41-49: the device objects are built
Task_Init ==
    /\ pc = "new"
    /\ rate_divides_1000(config)
    /\ pc' = "ready"
    /\ UNCHANGED <<sweep_vars, interp_vars, worker_vars,
                   input_vars, processed, history_vars, raised, run_no,
                   all_files_start_end_tss, files_matched, num_processed_sessions,
                   num_processed_raw_files, row, session_df, all_sensor_ts_segments,
                   subsessions_ts, dev_idx, sub_idx, saved_file, num_processed_files,
                   mismatched>>

\* task.py 49: a device constructor fails its assertion
Task_Init_Raises ==
    /\ pc = "new"
    /\ ~rate_divides_1000(config)
    /\ pc' = "config_error"
    /\ raised' = [NoError EXCEPT
                    !.error = "AssertionError: 1000 must be divisible by sampling rate"]
    /\ UNCHANGED <<sweep_vars, interp_vars, worker_vars,
                   input_vars, processed, history_vars, run_no,
                   all_files_start_end_tss, files_matched, num_processed_sessions,
                   num_processed_raw_files, row, session_df, all_sensor_ts_segments,
                   subsessions_ts, dev_idx, sub_idx, saved_file, num_processed_files,
                   mismatched>>

\* task.py 67-76: the files of the dates named in the log
files_scanned(files, rows) ==
    {i \in 1..Len(files) : \E k \in 1..Len(rows) : rows[k].date = files[i].date}

\* Task.get_all_start_end_timestamps 80-89
get_all_start_end_timestamps(files, rows, day_offsets) ==
    [i \in files_scanned(files, rows) |->
        get_start_end_timestamp_w_offset(files[i],
                                         day_offsets[files[i].date][files[i].device_id])]

\* task.py 257-270
Run_Start ==
    /\ pc = "ready"
    /\ run_no' = run_no + 1
    /\ all_files_start_end_tss' =
            get_all_start_end_timestamps(raw_files, log_df, day_offset_dict)
    /\ files_matched' = {}
    /\ num_processed_sessions' = 0
    /\ num_processed_raw_files' = 0
    /\ row' = 1
    /\ pc' = "loop"
    /\ last_trim' = NoTrim
    /\ trims_in_session' = 0
    /\ writes_in_run' = 0
    /\ rows_entered' = {}
    /\ rows_finished' = {}
    /\ empty_rows' = {}
    /\ session_log' = <<>>
    /\ UNCHANGED <<sweep_vars, interp_vars, worker_vars,
                   input_vars, processed, raised, session_df,
                   all_sensor_ts_segments, subsessions_ts, dev_idx, sub_idx, saved_file,
                   num_processed_files, mismatched, first_run_processed, skipped_types>>

\* what lines 281-282 and 201 make of the row at hand
found == find_data_files_of_session(log_df[row], raw_files, all_files_start_end_tss,
                                    DataTimezone)

\* task.py 281-282: the matching raises, or the empty frame has no 'file_path' column
Run_FindFiles_Raises ==
    /\ pc = "loop"
    /\ row <= Len(log_df)
    /\ \E fd \in {found} :
       /\ fd.error # "" \/ fd.df = <<>>
       /\ pc' = "raised"
       /\ raised' = IF fd.error # "" THEN fd.failed[1]
                    ELSE [NoError EXCEPT !.error = "KeyError: 'file_path'"]
    /\ UNCHANGED <<sweep_vars, interp_vars, worker_vars,
                   input_vars, processed, history_vars, run_no,
                   all_files_start_end_tss, files_matched, num_processed_sessions,
                   num_processed_raw_files, row, session_df, all_sensor_ts_segments,
                   subsessions_ts, dev_idx, sub_idx, saved_file, num_processed_files,
                   mismatched>>

\* task.py 281-286, 201 and number_array.py 19-20: no sensor file among the matches
Run_Intersect_Raises ==
    /\ pc = "loop"
    /\ row <= Len(log_df)
    /\ \E fd \in {found} :
       /\ fd.error = ""
       /\ fd.df # <<>>
       /\ sensors_of(fd.df) = <<>>
       /\ session_df' = fd.df
       /\ files_matched' = files_matched \cup {fd.df[k].file_path : k \in 1..Len(fd.df)}
       /\ all_sensor_ts_segments' = <<>>
       /\ rows_entered' = rows_entered \cup {row}
       /\ pc' = "raised"
       /\ raised' = [NoError EXCEPT
                        !.error = "ValueError: The input list doesn't have any element."]
    /\ UNCHANGED <<sweep_vars, interp_vars, worker_vars,
                   input_vars, processed, run_no, all_files_start_end_tss,
                   num_processed_sessions, num_processed_raw_files, row, subsessions_ts,
                   dev_idx, sub_idx, saved_file, num_processed_files, mismatched,
                   last_trim, trims_in_session, writes_in_run, first_run_processed,
                   rows_finished, empty_rows, skipped_types,
                   session_log>>

\* task.py 272-286 and 200-207: the files of the session are matched and its
\* sub-sessions found
Run_Session ==
    /\ pc = "loop"
    /\ row <= Len(log_df)
    /\ \E fd \in {found} :
       /\ fd.error = ""
       /\ sensors_of(fd.df) # <<>>
       /\ LET segs == segments_of_session(fd.df, raw_files, config)
              subs == interval_intersection(segs)
          IN  /\ session_df' = fd.df
              /\ all_sensor_ts_segments' = segs
              /\ subsessions_ts' = subs
              /\ empty_rows' = IF subs = <<>> THEN empty_rows \cup {row} ELSE empty_rows
              /\ session_log' = Append(session_log,
                                       [subs |-> subs, files |-> Len(fd.df), paths |-> {},
                                        calls |-> 0, writes |-> 0])
       /\ files_matched' = files_matched \cup {fd.df[k].file_path : k \in 1..Len(fd.df)}
       /\ rows_entered' = rows_entered \cup {row}
       /\ num_processed_files' = 0
       /\ dev_idx' = 1
       /\ sub_idx' = 1
       /\ saved_file' = FALSE
       /\ trims_in_session' = 0
       /\ pc' = "trim"
    /\ UNCHANGED <<sweep_vars, interp_vars, worker_vars,
                   input_vars, processed, raised, run_no,
                   all_files_start_end_tss, num_processed_sessions,
                   num_processed_raw_files, row, mismatched, last_trim, writes_in_run,
                   first_run_processed, rows_finished, skipped_types>>

\* the log of the current session after the trim_raw call t
logged(log, k, t) ==
    [log EXCEPT ![k] = [@ EXCEPT !.paths = @ \cup {t.path[1]},
                                 !.calls = @ + 1,
                                 !.writes = @ + (IF t.wrote THEN 1 ELSE 0)]]

\* the trim_raw call of lines 209-222 for the file and sub-session at hand
trim_call ==
    LET e == session_df[dev_idx]
        sub == subsessions_ts[sub_idx]
        r == log_df[row]
        t == trim_raw(raw_files[e.file_path],
                      output_path(r, log_df, row, e.data_type, sub),
                      sub[1], sub[2], session_offset_dict[r.session][e.device_id],
                      config, processed)
    IN  [t EXCEPT !.file = e.file_path, !.run = run_no, !.row = row]

\* task.py 209-225: one pass of the inner loop
Trim_Call ==
    /\ pc = "trim"
    /\ dev_idx <= Len(session_df)
    /\ sub_idx <= Len(subsessions_ts)
    /\ \E t \in trim_outcomes(trim_call) :
       /\ t.returned \in {"None", "path"}
       /\ processed' = IF t.wrote THEN processed \cup {t.path[1]}
                       ELSE processed
       /\ saved_file' = (saved_file \/ t.returned = "path")
       /\ sub_idx' = sub_idx + 1
       /\ last_trim' = t
       /\ trims_in_session' = trims_in_session + 1
       /\ session_log' = logged(session_log, row, t)
       /\ writes_in_run' = writes_in_run + (IF t.wrote THEN 1 ELSE 0)
       /\ skipped_types' = IF t.existed
                           THEN skipped_types \cup {t.device_type}
                           ELSE skipped_types
    /\ UNCHANGED <<sweep_vars, interp_vars, worker_vars,
                   input_vars, pc, raised, run_no, all_files_start_end_tss,
                   files_matched, num_processed_sessions, num_processed_raw_files, row,
                   session_df, all_sensor_ts_segments, subsessions_ts, dev_idx,
                   num_processed_files, mismatched, first_run_processed, rows_entered,
                   rows_finished, empty_rows>>

\* task.py 220 and video.py 18, 32: the video cutter's assertion, or the failure of
\* ffmpeg, ends the run
Trim_Raises ==
    /\ pc = "trim"
    /\ dev_idx <= Len(session_df)
    /\ sub_idx <= Len(subsessions_ts)
    /\ \E t \in trim_outcomes(trim_call) :
       /\ t.returned \notin {"None", "path"}
       /\ pc' = "raised"
       /\ raised' = [NoError EXCEPT !.error = t.returned]
       /\ processed' = IF t.wrote THEN processed \cup {t.path[1]} ELSE processed
       /\ last_trim' = t
       /\ trims_in_session' = trims_in_session + 1
       /\ writes_in_run' = writes_in_run + (IF t.wrote THEN 1 ELSE 0)
       /\ session_log' = logged(session_log, row, t)
    /\ UNCHANGED <<sweep_vars, interp_vars, worker_vars,
                   input_vars, run_no, all_files_start_end_tss,
                   files_matched, num_processed_sessions, num_processed_raw_files, row,
                   session_df, all_sensor_ts_segments, subsessions_ts, dev_idx, sub_idx,
                   saved_file, num_processed_files, mismatched,
                   first_run_processed, rows_entered, rows_finished, empty_rows,
                   skipped_types>>

\* task.py 205-209, 227-230: the inner loop is over, on to the next matched file
Trim_NextFile ==
    /\ pc = "trim"
    /\ dev_idx <= Len(session_df)
    /\ sub_idx > Len(subsessions_ts)
    /\ num_processed_files' = num_processed_files + (IF saved_file THEN 1 ELSE 0)
    /\ dev_idx' = dev_idx + 1
    /\ sub_idx' = 1
    /\ saved_file' = FALSE
    /\ UNCHANGED <<sweep_vars, interp_vars, worker_vars,
                   input_vars, processed, history_vars, pc, raised, run_no,
                   all_files_start_end_tss, files_matched, num_processed_sessions,
                   num_processed_raw_files, row, session_df, all_sensor_ts_segments,
                   subsessions_ts, mismatched>>

\* a variant of the test of line 289 that counts every session
counts_always(num_new_files) == TRUE

\* task.py 289: if num_new_files
counts_session(num_new_files) == num_new_files # 0

\* task.py 232, 289-291: the session is over, on to the next row
Run_EndSession ==
    /\ pc = "trim"
    /\ dev_idx > Len(session_df)
    /\ num_processed_raw_files' =
            IF counts_session(num_processed_files)
            THEN num_processed_raw_files + num_processed_files
            ELSE num_processed_raw_files
    /\ num_processed_sessions' =
            IF counts_session(num_processed_files)
            THEN num_processed_sessions + 1
            ELSE num_processed_sessions
    /\ rows_finished' = rows_finished \cup {row}
    /\ row' = row + 1
    /\ pc' = "loop"
    /\ UNCHANGED <<sweep_vars, interp_vars, worker_vars,
                   input_vars, processed, raised, run_no,
                   all_files_start_end_tss, files_matched, session_df,
                   all_sensor_ts_segments, subsessions_ts, dev_idx, sub_idx, saved_file,
                   num_processed_files, mismatched, last_trim, trims_in_session,
                   writes_in_run, first_run_processed, rows_entered, empty_rows,
                   skipped_types,
                   session_log>>

\* a variant of line 297 with the operands exchanged
matched_not_scanned(scanned, matched) == matched \ scanned

\* task.py 296-297: the files named in the warning
mismatched_files(scanned, matched) == scanned \ matched

\* task.py 293-302: the end-of-run check and statistics
Run_Finish ==
    /\ pc = "loop"
    /\ row > Len(log_df)
    /\ mismatched' = mismatched_files(DOMAIN all_files_start_end_tss, files_matched)
    /\ pc' = "done"
    /\ UNCHANGED <<sweep_vars, interp_vars, worker_vars,
                   input_vars, processed, history_vars, raised, run_no,
                   all_files_start_end_tss, files_matched, num_processed_sessions,
                   num_processed_raw_files, row, session_df, all_sensor_ts_segments,
                   subsessions_ts, dev_idx, sub_idx, saved_file, num_processed_files>>

\* script/raw_2_processed_data.py run once more on the same folders
Run_Again ==
    /\ pc \in {"done", "raised"}
    /\ run_no < MaxRuns
    /\ pc' = "ready"
    /\ raised' = NoError
    /\ first_run_processed' = IF run_no = 1 THEN processed ELSE first_run_processed
    /\ UNCHANGED <<sweep_vars, interp_vars, worker_vars,
                   input_vars, processed, run_no, all_files_start_end_tss,
                   files_matched, num_processed_sessions, num_processed_raw_files, row,
                   session_df, all_sensor_ts_segments, subsessions_ts, dev_idx, sub_idx,
                   saved_file, num_processed_files, mismatched, last_trim,
                   trims_in_session, writes_in_run, rows_entered, rows_finished,
                   empty_rows, skipped_types,
                   session_log>>

Next ==
    \/ Task_Init
    \/ Task_Init_Raises
    \/ Run_Start
    \/ Run_FindFiles_Raises
    \/ Run_Intersect_Raises
    \/ Run_Session
    \/ Trim_Call
    \/ Trim_Raises
    \/ Trim_NextFile
    \/ Run_EndSession
    \/ Run_Finish
    \/ Run_Again

Spec == Init /\ [][Next]_vars

(***************************************************************************)
(* utils/dataframe.py: interpolate_numeric_df, one value column at a time  *)
(***************************************************************************)
\* a computed value is a fraction <<numerator, denominator>>, denominator positive
Frac(n) == <<n, 1>>

FracEq(a, b) == a[1] * b[2] = b[1] * a[2]

\* a variant that holds the value of the raw sample before x
np_interp_previous(x, xp, fp) ==
    IF x > xp[Len(xp)] THEN Frac(fp[Len(fp)])
    ELSE IF x < xp[1] THEN Frac(fp[1])
    ELSE LET j == CHOOSE i \in 1..Len(xp) : xp[i] <= x /\ (i = Len(xp) \/ x < xp[i + 1])
         IN  Frac(fp[j])

\* np.interp(x, xp, fp) at one x, xp increasing: fp[1] before the first sample,
\* the last value after the last one, the sample's value on a sample, and
\* slope * (x - xp[j]) + fp[j] between the samples j and j + 1
np_interp(x, xp, fp) ==
    IF x > xp[Len(xp)] THEN Frac(fp[Len(fp)])
    ELSE IF x < xp[1] THEN Frac(fp[1])
    ELSE LET j == CHOOSE i \in 1..Len(xp) : xp[i] <= x /\ (i = Len(xp) \/ x < xp[i + 1])
         IN  IF j = Len(xp) \/ xp[j] = x THEN Frac(fp[j])
             ELSE <<(fp[j + 1] - fp[j]) * (x - xp[j]) + fp[j] * (xp[j + 1] - xp[j]),
                    xp[j + 1] - xp[j]>>

\* lines 88-89 for one column
interp_column(new_ts_arr, xp, fp) ==
    [k \in 1..Len(new_ts_arr) |-> np_interp(new_ts_arr[k], xp, fp)]

\* the shapes of a value column: y = 2t + 1, a constant, a parabola, a zigzag
Signals == {"linear", "constant", "square", "zigzag"}

SignalValue(sig, t) ==
    CASE sig = "linear" -> 2 * t + 1
      [] sig = "constant" -> 5
      [] sig = "square" -> t * t - 3
      [] sig = "zigzag" -> IF t % 2 = 0 THEN 4 ELSE -4

\* the increasing timestamp columns with at least two samples taken from 0..MaxRawT
RawTimestamps ==
    {[k \in 1..Cardinality(P) |-> Kth(P, k)] :
        P \in {Q \in SUBSET (0..MaxRawT) : Cardinality(Q) >= 2}}

\* a DF with the timestamp column ts and one value column per signal of sigs
Frame(ts, sigs) ==
    [ts |-> ts,
     cols |-> [c \in 1..Len(sigs) |-> [k \in 1..Len(ts) |-> SignalValue(sigs[c], ts[k])]]]

\* one or two value columns
Frames ==
    {Frame(ts, sigs) : ts \in RawTimestamps,
                       sigs \in {<<a>> : a \in Signals} \cup (Signals \X Signals)}

\* the timestamps asked for: the raw ones themselves, or one or two of 0..MaxRawT
Targets(ts) ==
    {ts} \cup {<<x>> : x \in 0..MaxRawT} \cup ((0..MaxRawT) \X (0..MaxRawT))

InitInterp ==
    /\ interp_df \in Frames
    /\ new_timestamp \in Targets(interp_df.ts)
    /\ new_df = <<>>
    /\ interp_pc = "call"
    /\ SweepIdle
    /\ PipeIdle
    /\ WorkersIdle

\* lines 79-86: the arrays are taken from the DF, the result holds the new timestamps
Interp_Start ==
    /\ interp_pc = "call"
    /\ new_df' = <<>>
    /\ interp_pc' = "columns"
    /\ UNCHANGED <<interp_df, new_timestamp>>
    /\ UNCHANGED <<sweep_vars, pipe_vars, worker_vars>>

\* lines 87-88: the next value column is interpolated
Interp_Column ==
    /\ interp_pc = "columns"
    /\ Len(new_df) < Len(interp_df.cols)
    /\ new_df' = Append(new_df, interp_column(new_timestamp, interp_df.ts,
                                               interp_df.cols[Len(new_df) + 1]))
    /\ UNCHANGED <<interp_df, new_timestamp, interp_pc>>
    /\ UNCHANGED <<sweep_vars, pipe_vars, worker_vars>>

\* lines 90-91
Interp_Return ==
    /\ interp_pc = "columns"
    /\ Len(new_df) = Len(interp_df.cols)
    /\ interp_pc' = "returned"
    /\ UNCHANGED <<interp_df, new_timestamp, new_df>>
    /\ UNCHANGED <<sweep_vars, pipe_vars, worker_vars>>

NextInterp ==
    \/ Interp_Start
    \/ Interp_Column
    \/ Interp_Return

SpecInterp == InitInterp /\ [][NextInterp]_vars

(***************************************************************************)
(* RecordingDevice.trim_raw run by several processes for one output_path:  *)
(* each process executes the statements of trim_raw in order, and the      *)
(* statements of different processes interleave                            *)
(***************************************************************************)
Workers == 1..MaxWorkers

\* os.path.exists / os.path.isfile of the destination
dest_exists == dest_writes # <<>>

InitWorkers ==
    /\ worker_pc = [w \in Workers |-> "call"]
    /\ worker_device \in DeviceTypes
    /\ dest_writes \in {<<>>, <<0>>}      \* absent, or left by an earlier run
    /\ checked_after = [w \in Workers |-> -1]
    /\ SweepIdle
    /\ PipeIdle
    /\ InterpIdle

\* trim_raw 66-68 with check_output_path 89-93
W_CheckOutputPath(w) ==
    /\ worker_pc[w] = "call"
    /\ IF dest_exists
       THEN /\ worker_pc' = [worker_pc EXCEPT ![w] = "returned None"]
            /\ UNCHANGED checked_after
       ELSE /\ worker_pc' = [worker_pc EXCEPT ![w] = "checked"]
            /\ checked_after' = [checked_after EXCEPT ![w] = Len(dest_writes)]
    /\ UNCHANGED <<worker_device, dest_writes>>
    /\ UNCHANGED <<sweep_vars, pipe_vars, interp_vars>>

\* trim_raw 70-73 up to the writing call of _trim_data_with_offset: the raw file is
\* read, the offset added, the data cut or resampled
W_ReadAndTrim(w) ==
    /\ worker_pc[w] = "checked"
    /\ worker_pc' = [worker_pc EXCEPT ![w] = IF worker_device = CAMERA THEN "ffmpeg"
                                             ELSE "write_df_file"]
    /\ UNCHANGED <<worker_device, dest_writes, checked_after>>
    /\ UNCHANGED <<sweep_vars, pipe_vars, interp_vars>>

\* write_df_file 49-51: overwrite is False, an existing file is left alone and
\* _trim_data_with_offset returns output_path all the same
W_IsFile(w) ==
    /\ worker_pc[w] = "write_df_file"
    /\ IF dest_exists
       THEN /\ worker_pc' = [worker_pc EXCEPT ![w] = "returned path"]
            /\ UNCHANGED checked_after
       ELSE /\ worker_pc' = [worker_pc EXCEPT ![w] = "to_csv"]
            /\ checked_after' = [checked_after EXCEPT ![w] = Len(dest_writes)]
    /\ UNCHANGED <<worker_device, dest_writes>>
    /\ UNCHANGED <<sweep_vars, pipe_vars, interp_vars>>

\* a variant of the write that creates the file only if it is absent
W_ToCsvExclusive(w) ==
    /\ worker_pc[w] = "to_csv"
    /\ dest_writes' = IF dest_exists THEN dest_writes ELSE Append(dest_writes, w)
    /\ worker_pc' = [worker_pc EXCEPT ![w] = "returned path"]
    /\ UNCHANGED <<worker_device, checked_after>>
    /\ UNCHANGED <<sweep_vars, pipe_vars, interp_vars>>

\* write_df_file 53-66: the folder is made and the file written
W_ToCsv(w) ==
    /\ worker_pc[w] = "to_csv"
    /\ dest_writes' = Append(dest_writes, w)
    /\ worker_pc' = [worker_pc EXCEPT ![w] = "returned path"]
    /\ UNCHANGED <<worker_device, checked_after>>
    /\ UNCHANGED <<sweep_vars, pipe_vars, interp_vars>>

\* utils/video.py 22-30: ffmpeg -y writes over an existing output
W_Ffmpeg(w) ==
    /\ worker_pc[w] = "ffmpeg"
    /\ dest_writes' = Append(dest_writes, w)
    /\ worker_pc' = [worker_pc EXCEPT ![w] = "returned path"]
    /\ UNCHANGED <<worker_device, checked_after>>
    /\ UNCHANGED <<sweep_vars, pipe_vars, interp_vars>>

NextWorkers ==
    \E w \in Workers :
        \/ W_CheckOutputPath(w)
        \/ W_ReadAndTrim(w)
        \/ W_IsFile(w)
        \/ W_ToCsv(w)
        \/ W_Ffmpeg(w)

SpecWorkers == InitWorkers /\ [][NextWorkers]_vars

(***************************************************************************)
(* Properties of interval_intersection                                     *)
(***************************************************************************)
\* the unit cell [t, t+1] lies inside a segment of list l
Covered(l, t) == \E k \in 1..Len(l) : l[k][1] <= t /\ t + 1 <= l[k][2]

\* the unit cell [t, t+1] lies inside a segment of every list
CommonCell(ivs, t) == \A i \in 1..Len(ivs) : Covered(ivs[i], t)

AllBounds(ivs) ==
    UNION {UNION {{ivs[i][k][1], ivs[i][k][2]} : k \in 1..Len(ivs[i])} : i \in 1..Len(ivs)}

Cells(ivs) ==
    IF AllBounds(ivs) = {} THEN {}
    ELSE (CHOOSE m \in AllBounds(ivs) : \A x \in AllBounds(ivs) : m <= x)
         .. (CHOOSE m \in AllBounds(ivs) : \A x \in AllBounds(ivs) : m >= x)

\* res is exactly the ascending list of the maximal positive-length runs common to all lists
IsSetIntersection(ivs, res) ==
    /\ \A k \in 1..Len(res) : res[k][1] < res[k][2]
    /\ \A k \in 1..(Len(res) - 1) : res[k][2] < res[k + 1][1]
    /\ \A t \in Cells(ivs) : Covered(res, t) <=> CommonCell(ivs, t)

PermutationsOf(n) == {p \in [1..n -> 1..n] : \A i, j \in 1..n : p[i] = p[j] => i = j}

\* C1: for two or more sorted, non-overlapping lists the returned list is exactly the
\* ascending list of the maximal positive-length intervals common to all lists; the
\* two documented examples give [[10,40],[60,90]] and [].
C1_SetIntersection ==
    (sweep_pc = "returned" /\ Len(intervals) >= 2) =>
        /\ IsSetIntersection(intervals, result)
        /\ intervals = ExampleABC => result = << <<10, 40>>, <<60, 90>> >>
        /\ intervals = ExampleDisjoint => result = <<>>

C1_Witness ==
    /\ sweep_pc = "returned"
    /\ intervals = ExampleABC
    /\ result = << <<10, 40>>, <<60, 90>> >>

\* C2: the result is the same for every order in which the lists are passed,
\* also when the sweep met several lists sharing the smallest end.
C2_OrderInvariant ==
    (sweep_pc = "returned" /\ Len(intervals) >= 1) =>
        \A p \in PermutationsOf(Len(intervals)) :
            interval_intersection([i \in 1..Len(intervals) |-> intervals[p[i]]]) = result

C2_Witness ==
    /\ sweep_pc = "returned"
    /\ Len(intervals) = 3
    /\ tie_seen
    /\ intervals[1] # intervals[2]
    /\ intervals[2] # intervals[3]
    /\ Len(result) = 2

(***************************************************************************)
(* Properties of the pipeline                                              *)
(***************************************************************************)
ToleranceError == "AssertionError: Matched file has too big difference gap"

CutterError == "AssertionError: No start/end time provided!"

\* the candidate files of sensor column c of row r, by position in glob order
RoleCandidates(r, c) ==
    {i \in 1..Len(raw_files) :
        /\ raw_files[i].date = r.date
        /\ raw_files[i].device_id = r.sensors[c]
        /\ raw_files[i].device_type = SENSOR_COLS[c].device_type}

StartDiff(i, r) ==
    Abs(all_files_start_end_tss[i][1] - datetime_2_timestamp(r.date, r.start_time, DataTimezone))

\* the logged end second, counted from the start's midnight
LoggedEndSec(r) == IF r.end_time < r.start_time THEN r.end_time + 86400 ELSE r.end_time

EndDiff(i, r) ==
    Abs(all_files_start_end_tss[i][2] - datetime_2_timestamp(r.date, LoggedEndSec(r), DataTimezone))

\* file i is a closest candidate of column c, and the first of the closest ones
ClosestFirst(i, r, c) ==
    /\ i \in RoleCandidates(r, c)
    /\ \A j \in RoleCandidates(r, c) :
            /\ StartDiff(i, r) + EndDiff(i, r) <= StartDiff(j, r) + EndDiff(j, r)
            /\ StartDiff(i, r) + EndDiff(i, r) = StartDiff(j, r) + EndDiff(j, r) => i <= j

UsedCols(r) == {c \in 1..Len(SENSOR_COLS) : r.sensors[c] # NA}

FourSteps ==
    <<"check_output_path", "_read_raw_data", "_add_offset_to_data", "_trim_data_with_offset">>

\* C4: for every device type, a trim_raw call whose destination (path plus the device's
\* extension) exists returns None after check_output_path alone, with no read, offset,
\* cut or write; a call whose destination does not exist goes on to read, offset and trim.
C4_SkipExisting ==
    [][trims_in_session' = trims_in_session + 1 =>
        /\ last_trim'.called
        /\ last_trim'.path[1].ext = config.output_format[last_trim'.device_type]
        /\ last_trim'.path[1] \in processed =>
                /\ last_trim'.returned = "None"
                /\ last_trim'.steps = <<"check_output_path">>
                /\ ~last_trim'.wrote
                /\ processed' = processed
        /\ last_trim'.path[1] \notin processed => last_trim'.steps = FourSteps]_vars

C4_Witness ==
    /\ run_no = 2
    /\ skipped_types = DeviceTypes
    /\ last_trim.existed
    /\ last_trim.returned = "None"
    /\ processed = first_run_processed
    /\ processed # {}

\* C5: every role with a device id gets, among the files of the session's date, device
\* id and device type, a file of minimal |start difference| + |end difference|, the
\* first such file in candidate order; a role with a blank device id gets no entry.
C5_ClosestFirst ==
    /\ pc = "trim" =>
            /\ Len(session_df) = Cardinality(UsedCols(log_df[row]))
            /\ \A k \in 1..Len(session_df) :
                    /\ session_df[k].data_type =
                            SENSOR_COLS[Kth(UsedCols(log_df[row]), k)].data_type
                    /\ session_df[k].device_id =
                            log_df[row].sensors[Kth(UsedCols(log_df[row]), k)]
                    /\ ClosestFirst(session_df[k].file_path, log_df[row],
                                    Kth(UsedCols(log_df[row]), k))
    /\ (pc = "raised" /\ raised.error = ToleranceError) =>
            ClosestFirst(raised.file, log_df[row], raised.col)

C5_Witness ==
    /\ pc = "trim"
    /\ \E c \in 1..Len(SENSOR_COLS) : log_df[row].sensors[c] = NA
    /\ \E j \in RoleCandidates(log_df[row], 1) :
            /\ j > session_df[1].file_path
            /\ StartDiff(j, log_df[row]) + EndDiff(j, log_df[row]) =
                    StartDiff(session_df[1].file_path, log_df[row])
                    + EndDiff(session_df[1].file_path, log_df[row])
            /\ StartDiff(j, log_df[row]) # StartDiff(session_df[1].file_path, log_df[row])

\* C6 (as amended): the match of a role fails exactly when the start difference or the
\* end difference of the selected file is 180 seconds or more; a selected file is
\* accepted only when both differences are below 180 seconds.
C6_RejectsAtTolerance ==
    /\ (pc = "raised" /\ raised.error = ToleranceError) =>
            \/ StartDiff(raised.file, log_df[row]) >= MatchTolerance * 1000
            \/ EndDiff(raised.file, log_df[row]) >= MatchTolerance * 1000
    /\ pc = "trim" =>
            \A k \in 1..Len(session_df) :
                /\ StartDiff(session_df[k].file_path, log_df[row]) < MatchTolerance * 1000
                /\ EndDiff(session_df[k].file_path, log_df[row]) < MatchTolerance * 1000

C6_Witness ==
    /\ pc = "raised"
    /\ raised.error = ToleranceError
    /\ StartDiff(raised.file, log_df[row]) = MatchTolerance * 1000
    /\ EndDiff(raised.file, log_df[row]) = 0

\* C6 as stated: the match fails exactly when a difference exceeds 180 seconds, and a
\* file whose differences are both at most 180 seconds is accepted.
C6_AcceptsAtTolerance ==
    /\ (pc = "raised" /\ raised.error = ToleranceError) =>
            \/ StartDiff(raised.file, log_df[row]) > MatchTolerance * 1000
            \/ EndDiff(raised.file, log_df[row]) > MatchTolerance * 1000
    /\ pc = "trim" =>
            \A k \in 1..Len(session_df) :
                /\ StartDiff(session_df[k].file_path, log_df[row]) <= MatchTolerance * 1000
                /\ EndDiff(session_df[k].file_path, log_df[row]) <= MatchTolerance * 1000

\* every role of row k that names a device has its closest file within the tolerance
WithinToleranceRow(k) ==
    \A c \in UsedCols(log_df[k]) :
        \E i \in RoleCandidates(log_df[k], c) :
            /\ ClosestFirst(i, log_df[k], c)
            /\ StartDiff(i, log_df[k]) < MatchTolerance * 1000
            /\ EndDiff(i, log_df[k]) < MatchTolerance * 1000

\* C7 (as amended): a session whose match is outside the tolerance ends the run with
\* an AssertionError: the sessions before it in the log have been matched, intersected
\* and trimmed, the session itself and every later session have not, and no session
\* with such a match is ever trimmed.
C7_ToleranceAborts ==
    /\ (pc = "raised" /\ raised.error = ToleranceError) =>
            /\ rows_finished = 1..(row - 1)
            /\ rows_entered = 1..(row - 1)
            /\ ~WithinToleranceRow(row)
    /\ (row \in rows_entered /\ trims_in_session = 0) => WithinToleranceRow(row)

C7_Witness ==
    /\ pc = "raised"
    /\ raised.error = ToleranceError
    /\ row = 1
    /\ Len(log_df) > row
    /\ WithinToleranceRow(row + 1)
    /\ rows_entered = {}
    /\ processed = {}

\* C7 as stated: a match outside the tolerance does not stop the run; when the run is
\* over every other logged session has been matched, intersected and trimmed.
C7_DoesNotAbort ==
    (pc \in {"done", "raised"} /\ raised.error \in {"", ToleranceError}) =>
        \A k \in 1..Len(log_df) : WithinToleranceRow(k) => k \in rows_finished

\* C8: when the intersection of a session's sensor lists is empty no trim_raw call is
\* made and nothing is written for any matched file of the session, the label file
\* included; the session is not counted as processed and the run goes on to the next row.
C8_EmptyIntersection ==
    [][(pc = "trim" /\ subsessions_ts = <<>>) =>
        /\ trims_in_session = 0
        /\ trims_in_session' = 0
        /\ processed' = processed
        /\ writes_in_run' = writes_in_run
        /\ num_processed_sessions' = num_processed_sessions
        /\ num_processed_raw_files' = num_processed_raw_files
        /\ pc' = "trim" \/ (pc' = "loop" /\ row' = row + 1)]_vars

C8_Witness ==
    /\ pc = "trim"
    /\ row = 2
    /\ 1 \in empty_rows
    /\ 1 \in rows_finished
    /\ log_df[1].sensors = AllSensors
    /\ num_processed_sessions = 0
    /\ processed = {}
    /\ subsessions_ts # <<>>

\* the day offset of the device that recorded file f
DayOffset(f) == day_offset_dict[f.date][f.device_id]

\* seg is an interval of file f on the common clock: raw bounds of f plus its offset
OnCommonClock(seg, f) ==
    IF f.device_type \in {WATCH, SENSOR_LOGGER}
    THEN \E a, b \in {f.ts[i] : i \in 1..Len(f.ts)} \cup {f.ts2[i] : i \in 1..Len(f.ts2)} :
            seg = <<a + DayOffset(f), b + DayOffset(f)>>
    ELSE seg = <<get_start_end_timestamp_wo_offset(f)[1] + DayOffset(f),
                 get_start_end_timestamp_wo_offset(f)[2] + DayOffset(f)>>

\* C9: every interval handed to the matching or to interval_intersection is on the
\* common clock: the extent of every file and every gap segment of a sensor file is
\* a pair of raw timestamps plus the device's offset.
C9_OffsetCorrected ==
    /\ \A i \in DOMAIN all_files_start_end_tss :
            OnCommonClock(all_files_start_end_tss[i], raw_files[i])
    /\ pc = "trim" =>
            \A k \in 1..Len(all_sensor_ts_segments) :
                \A j \in 1..Len(all_sensor_ts_segments[k]) :
                    OnCommonClock(all_sensor_ts_segments[k][j],
                                  raw_files[sensors_of(session_df)[k].file_path])

\* C10: in every trim of an inertial device every timestamp of the target grid lies
\* between the first and the last raw timestamp of the device after the offset that
\* trim_raw applied.
C10_GridInsideRaw ==
    (last_trim.called /\ ~last_trim.existed) =>
        \A i \in 0..(last_trim.n_new_ts - 1) :
            \A d \in 1..Len(last_trim.domains) :
                /\ last_trim.domains[d][1] <= new_ts(i, last_trim.start_ts, last_trim.rate)
                /\ new_ts(i, last_trim.start_ts, last_trim.rate) <= last_trim.domains[d][2]

(***************************************************************************)
(* interval_intersection: the degenerate numbers of lists                  *)
(***************************************************************************)
\* C19: called with zero lists, interval_intersection raises an error and
\* returns no result: the call never reaches a return, and no list is produced.
C19_ZeroListsRaise ==
    Len(intervals) = 0 =>
        /\ sweep_pc \in {"call", "raised"}
        /\ result = <<>>
        /\ iterations = 0

C19_Witness == sweep_pc = "raised" /\ intervals = <<>>

\* C20: called with exactly one list, interval_intersection returns that list
\* unchanged, whatever the list is: empty, or holding zero-length segments.
C20_SingleListUnchanged ==
    (Len(intervals) = 1 /\ sweep_pc \notin {"call"}) =>
        /\ sweep_pc = "returned"
        /\ result = intervals[1]
        /\ iterations = 0

C20_Witness ==
    /\ sweep_pc = "returned"
    /\ Len(intervals) = 1
    /\ \E k \in 1..Len(result) : result[k][1] = result[k][2]
    /\ \E k \in 1..Len(result) : result[k][1] < result[k][2]

(***************************************************************************)
(* Task.__init__: the sampling rates                                       *)
(***************************************************************************)
\* C15: a configuration in which the sampling rate of the watch or of the phone
\* does not divide 1000 (33, say) is rejected when the task is constructed: the
\* constructor's assertion fails, run() never starts, so no file is scanned or
\* matched, no trim is called and the processed folder stays empty.
C15_BadRateRejected ==
    (\E t \in {WATCH, SENSOR_LOGGER} : 1000 % config.sampling_rate[t] # 0) =>
        /\ pc \in {"idle", "new", "config_error"}
        /\ pc = "config_error" =>
                raised.error = "AssertionError: 1000 must be divisible by sampling rate"
        /\ run_no = 0
        /\ all_files_start_end_tss = <<>>
        /\ files_matched = {}
        /\ session_df = <<>>
        /\ ~last_trim.called
        /\ trims_in_session = 0
        /\ processed = {}

C15_Witness ==
    /\ pc = "config_error"
    /\ config.sampling_rate[WATCH] = 33
    /\ raw_files # <<>>
    /\ log_df # <<>>

(***************************************************************************)
(* RecordingDevice.get_start_end_timestamp_w_offset                        *)
(***************************************************************************)
\* C16: for a file of raw extent (s, e) and an offset d, negative, zero or positive,
\* get_start_end_timestamp_w_offset returns (s + d, e + d): every scanned file's
\* extent is its raw extent moved by its device's day offset, and a raw extent
\* (1000, 2000) with offset -50 gives (950, 1950).
C16_ExtentPlusOffset ==
    /\ (pc = "loop" /\ row = 1) =>
          \A i \in DOMAIN all_files_start_end_tss :
            LET f == raw_files[i]
                d == day_offset_dict[f.date][f.device_id]
                se == get_start_end_timestamp_wo_offset(f)
            IN  all_files_start_end_tss[i] = <<se[1] + d, se[2] + d>>
    /\ \A d \in {-50, 0, 50} :
          get_start_end_timestamp_w_offset(
              File("w1", WATCH, "example", <<1000, 1500, 2000>>, <<>>), d)
          = <<1000 + d, 2000 + d>>

C16_Witness ==
    /\ pc = "loop"
    /\ row = 1
    /\ \E i, j, k \in DOMAIN all_files_start_end_tss :
          /\ day_offset_dict[1][raw_files[i].device_id] < 0
          /\ all_files_start_end_tss[i][1]
                = get_start_end_timestamp_wo_offset(raw_files[i])[1] - 50
          /\ day_offset_dict[1][raw_files[j].device_id] > 0
          /\ day_offset_dict[1][raw_files[k].device_id] = 0

(***************************************************************************)
(* Task.find_data_files_of_session: sessions across midnight               *)
(***************************************************************************)
\* C17: when the logged end time of day is earlier than the logged start time of
\* day, the nominal end of the session is the end time on the logged date moved
\* forward by exactly 24 hours; otherwise it is the end time on the logged date;
\* the nominal end is never earlier than the nominal start, and the files of a
\* matched session lie within the tolerance of these nominal bounds.
C17_MidnightEnd ==
    (pc \in {"loop", "trim"} /\ row <= Len(log_df) /\ trims_in_session = 0) =>
        LET r == log_df[row]
            ts == log_start_end_ts(r, DataTimezone)
            same_day == datetime_2_timestamp(r.date, r.end_time, DataTimezone)
        IN  /\ ts[1] = datetime_2_timestamp(r.date, r.start_time, DataTimezone)
            /\ r.end_time < r.start_time => ts[2] = same_day + 24 * 3600 * 1000
            /\ r.end_time >= r.start_time => ts[2] = same_day
            /\ ts[2] >= ts[1]
            /\ pc = "trim" =>
                    \A k \in 1..Len(session_df) :
                        /\ Abs(session_df[k].start_ts - ts[1]) < MatchTolerance * 1000
                        /\ Abs(session_df[k].end_ts
                               - (ts[1] + 1000 * (LoggedEndSec(r) - r.start_time)))
                                < MatchTolerance * 1000

C17_Witness ==
    /\ pc = "trim"
    /\ log_df[row].end_time < log_df[row].start_time
    /\ Len(session_df) = 4
    /\ subsessions_ts # <<>>

(***************************************************************************)
(* Task.run: the end-of-run check                                          *)
(***************************************************************************)
\* the files of the dates named in the log
ScannedFiles ==
    {i \in 1..Len(raw_files) : \E k \in 1..Len(log_df) : log_df[k].date = raw_files[i].date}

\* the files that are the first closest candidate of some role of some logged session
SelectedFiles ==
    {i \in ScannedFiles :
        \E k \in 1..Len(log_df) : \E c \in UsedCols(log_df[k]) :
            ClosestFirst(i, log_df[k], c)}

\* C14: when a run completes, the files it warns about are exactly the scanned files
\* that were selected for no role of any session; every file matched to a role is a
\* scanned file; and a non-empty set of unmatched files does not fail the run.
C14_MismatchedFiles ==
    pc = "done" =>
        /\ mismatched = ScannedFiles \ SelectedFiles
        /\ files_matched = SelectedFiles
        /\ files_matched \subseteq DOMAIN all_files_start_end_tss
        /\ DOMAIN all_files_start_end_tss = ScannedFiles
        /\ raised = NoError

C14_Witness ==
    /\ pc = "done"
    /\ mismatched # {}
    /\ files_matched # {}
    /\ ScannedFiles # 1..Len(raw_files)
    /\ raised = NoError

(***************************************************************************)
(* Task.find_start_end_ts_of_session: the label tool                       *)
(***************************************************************************)
\* the matched files of the session with the label file's extent replaced by ext
Relabelled(df, ext) ==
    [k \in 1..Len(df) |->
        IF df[k].device_type = TIMER_APP
        THEN [df[k] EXCEPT !.start_ts = ext[1], !.end_ts = ext[2]]
        ELSE df[k]]

\* extents a label file may have: the ones of the scenarios, and far ones
LabelExtents(b) == {LabelTs(lv, b) : lv \in LabelVariants} \cup {<<0, 0>>, <<b, b + 1>>}

\* C11: the sub-sessions of a session are computed from its sensor devices only: the
\* interval lists handed to interval_intersection are those of the matched files that
\* are not the label tool's, and whatever the extent of the label file the
\* sub-sessions are the same.
C11_LabelLeftOut ==
    (pc = "trim" /\ trims_in_session = 0 /\ dev_idx = 1) =>
        /\ Len(all_sensor_ts_segments) =
                Cardinality({k \in 1..Len(session_df) : session_df[k].device_type # TIMER_APP})
        /\ \A ext \in LabelExtents(log_start_end_ts(log_df[row], DataTimezone)[1]) :
                interval_intersection(
                    segments_of_session(Relabelled(session_df, ext), raw_files, config))
                = subsessions_ts

C11_Witness ==
    /\ pc = "trim"
    /\ trims_in_session = 0
    /\ subsessions_ts # <<>>
    /\ \E k \in 1..Len(session_df) :
            /\ session_df[k].device_type = TIMER_APP
            /\ session_df[k].end_ts < subsessions_ts[1][1]

(***************************************************************************)
(* TimestampCamera._trim_data_with_offset: the bounds given to the cutter  *)
(***************************************************************************)
\* C18: for every sub-session and every video, the relative start and the relative
\* end that the camera's trim passes to the video cutter both lie between 0 and
\* the duration of the video.
C18_CutInsideVideo ==
    (last_trim.called /\ last_trim.device_type = CAMERA /\ ~last_trim.existed) =>
        /\ 0 <= last_trim.start_sec
        /\ last_trim.start_sec <= last_trim.video_len
        /\ 0 <= last_trim.end_sec
        /\ last_trim.end_sec <= last_trim.video_len

(***************************************************************************)
(* Task.trim_data_files_of_session: the destination paths                  *)
(***************************************************************************)
\* the most recent trim_raw call was made for the file session_df[dev_idx]
CallAtHand ==
    /\ last_trim.called
    /\ last_trim.run = run_no
    /\ last_trim.row = row
    /\ \/ pc = "trim" /\ sub_idx > 1 /\ dev_idx <= Len(session_df)
       \/ pc = "raised" /\ raised.error \in {CutterError, "IOError: ffmpeg"}

\* the path of the call at hand is made of the six values and the device's extension
PathByFields ==
    CallAtHand =>
        last_trim.path[1] =
            [setup_id |-> log_df[row].setup,
             data_type |-> session_df[dev_idx].data_type,
             subject_id |-> log_df[row].subject,
             ith_day |-> 1 + Cardinality({log_df[j].date : j \in
                                {i \in 1..Len(log_df) :
                                    /\ log_df[i].subject = log_df[row].subject
                                    /\ log_df[i].date < log_df[row].date}}),
             start_ts |-> last_trim.start_ts,
             end_ts |-> last_trim.end_ts,
             ext |-> config.output_format[session_df[dev_idx].device_type]]

\* sessions a and b of the run agree in setup, subject and day and have a sub-session
\* with the same bounds
SameSubSession(a, b) ==
    /\ log_df[a].setup = log_df[b].setup
    /\ log_df[a].subject = log_df[b].subject
    /\ log_df[a].date = log_df[b].date
    /\ \E i \in 1..Len(session_log[a].subs), j \in 1..Len(session_log[b].subs) :
            session_log[a].subs[i] = session_log[b].subs[j]

\* C13 (as amended): a destination path is made of the setup, the data type, the
\* subject, the day ordinal and the sub-session's start and end only; the paths of
\* two distinct logged sessions of a run are disjoint unless the two sessions agree
\* in setup, subject and day and have a sub-session with the same bounds, as two
\* sessions matched to the same raw files have.
C13_PathsByFields ==
    /\ PathByFields
    /\ \A a, b \in 1..Len(session_log) :
            (a # b /\ ~SameSubSession(a, b)) =>
                session_log[a].paths \cap session_log[b].paths = {}

C13_Witness ==
    /\ Len(session_log) = 2
    /\ session_log[1].paths \cap session_log[2].paths # {}
    /\ SameSubSession(1, 2)
    /\ log_df[1].session # log_df[2].session
    /\ session_df # <<>>
    /\ \A k \in 1..Len(session_df) :
            session_df[k].start_ts = all_files_start_end_tss[session_df[k].file_path][1]

\* C13 as stated: the paths are made of the six values only, and the paths of any two
\* distinct logged sessions of a run are disjoint.
C13_PathsDisjoint ==
    /\ PathByFields
    /\ \A a, b \in 1..Len(session_log) :
            a # b => session_log[a].paths \cap session_log[b].paths = {}

(***************************************************************************)
(* Task.trim_data_files_of_session: one trim per file and sub-session      *)
(***************************************************************************)
\* no further trim_raw call will be made for the k-th session of the run
TrimmingOver(k) ==
    \/ k < row
    \/ pc \in {"done", "raised"}
    \/ pc = "trim" /\ dev_idx > Len(session_df)

\* C12: on a run into an empty processed folder, a session with m matched files (the
\* label file included) and k sub-sessions has exactly m * k trim_raw calls, one for
\* each file and sub-session, each with the bounds of its sub-session, and each
\* writes its own destination.
C12_TrimPerPair ==
    run_no = 1 =>
        /\ CallAtHand =>
                /\ sub_idx - 1 \in 1..Len(subsessions_ts) =>
                        <<last_trim.start_ts, last_trim.end_ts>> = subsessions_ts[sub_idx - 1]
                /\ last_trim.file = session_df[dev_idx].file_path
        /\ \A k \in 1..Len(session_log) :
                TrimmingOver(k) =>
                    /\ session_log[k].calls = session_log[k].files * Len(session_log[k].subs)
                    /\ Cardinality(session_log[k].paths) = session_log[k].calls
                    /\ session_log[k].writes = session_log[k].calls

(***************************************************************************)
(* interval_intersection: the steps of the sweep                           *)
(***************************************************************************)
\* the end of the current interval of list i
CurrentEnd(i) == intervals[i][pos_indices[i] + 1][2]

\* the lists whose current interval ends first
EndingFirst ==
    {i \in 1..Len(intervals) : \A j \in 1..Len(intervals) : CurrentEnd(i) <= CurrentEnd(j)}

\* a step of the loop
SweepStep == sweep_pc = "loop" /\ pos_indices' # pos_indices

\* C24 (as amended): in every step of the sweep exactly one cursor is advanced, by
\* one: that of the first list, in the order the lists were passed, among the lists
\* whose current intervals share the smallest end; the other tied lists stay where
\* they are in that step.
C24_FirstTiedAdvances ==
    [][SweepStep =>
        \E i \in EndingFirst :
            /\ \A j \in EndingFirst : i <= j
            /\ pos_indices' = [pos_indices EXCEPT ![i] = @ + 1]]_vars

C24_Witness ==
    /\ sweep_pc = "loop"
    /\ tie_seen
    /\ iterations = 1
    /\ pos_indices[1] = 1
    /\ \A i \in 2..Len(intervals) : pos_indices[i] = 0
    /\ intervals[1][1][2] = intervals[2][1][2]

\* C24 as stated: in every step in which several lists share the smallest end, the
\* cursors of all those lists are advanced.
C24_AllTiedAdvance ==
    [][SweepStep =>
        \A i \in EndingFirst : pos_indices'[i] = pos_indices[i] + 1]_vars

\* the point t lies in a segment of the list l
InList(l, t) == \E m \in 1..Len(l) : l[m][1] <= t /\ t <= l[m][2]

\* C28: for two or more sorted, non-overlapping lists, in every state of the sweep the
\* accumulated result is sorted by start, its intervals do not overlap, each has
\* start < end (an overlap in a single point is never emitted) and each lies inside
\* one interval of every input list.
C28_ResultWellFormed ==
    Len(intervals) >= 2 =>
        /\ \A k \in 1..Len(result) :
                /\ result[k][1] < result[k][2]
                /\ \A i \in 1..Len(intervals) :
                        \E m \in 1..Len(intervals[i]) :
                            /\ intervals[i][m][1] <= result[k][1]
                            /\ result[k][2] <= intervals[i][m][2]
        /\ \A k \in 1..(Len(result) - 1) :
                /\ result[k][1] < result[k + 1][1]
                /\ result[k][2] <= result[k + 1][1]

C28_Witness ==
    /\ sweep_pc = "returned"
    /\ Len(intervals) >= 2
    /\ Len(result) >= 1
    /\ \E t \in AllBounds(intervals) :
            /\ \A i \in 1..Len(intervals) : InList(intervals[i], t)
            /\ ~InList(result, t)

RECURSIVE SeqSum(_)
SeqSum(q) == IF q = <<>> THEN 0 ELSE Head(q) + SeqSum(Tail(q))

\* some cursor has passed the end of its list
SomeListDone == \E i \in 1..Len(intervals) : pos_indices[i] >= Len(intervals[i])

\* C29: the loop of the sweep always terminates: every iteration advances exactly one
\* cursor by one position, no cursor ever moves backwards, the loop stops as soon as
\* a cursor has passed the end of its list, and there are at most as many iterations
\* as there are intervals in all the lists together.
C29_SweepTerminates ==
    /\ [](sweep_pc \in {"loop", "returned"} /\ Len(intervals) >= 2 =>
            /\ iterations = SeqSum(pos_indices)
            /\ iterations <= TotalSegs(intervals)
            /\ \A i \in 1..Len(intervals) : pos_indices[i] <= Len(intervals[i]))
    /\ [][sweep_pc = "loop" =>
            /\ \A i \in 1..Len(intervals) : pos_indices'[i] >= pos_indices[i]
            /\ iterations' # iterations =>
                    /\ iterations' = iterations + 1
                    /\ \E i \in 1..Len(intervals) :
                            pos_indices' = [pos_indices EXCEPT ![i] = @ + 1]
            /\ SomeListDone => (sweep_pc' = "returned" /\ iterations' = iterations)
            /\ ~SomeListDone => iterations' = iterations + 1]_vars
    /\ <>(sweep_pc \in {"returned", "raised"})

C29_Witness ==
    /\ sweep_pc = "returned"
    /\ Len(intervals) >= 2
    /\ iterations = TotalSegs(intervals) - 1
    /\ iterations >= 3
    /\ \E i \in 1..Len(intervals) : pos_indices[i] < Len(intervals[i])

(***************************************************************************)
(* Gap segmentation: the interval list of one device                       *)
(***************************************************************************)
\* some successive difference of ts is greater than gap
HasGap(ts, gap) == \E i \in 1..(Len(ts) - 1) : ts[i + 1] - ts[i] > gap

\* the maximal stretches a..b of ts whose successive differences are all at most gap
MaximalRuns(ts, gap) ==
    {q \in (1..Len(ts)) \X (1..Len(ts)) :
        /\ q[1] <= q[2]
        /\ \A i \in q[1]..(q[2] - 1) : ts[i + 1] - ts[i] <= gap
        /\ (q[1] = 1 \/ ts[q[1]] - ts[q[1] - 1] > gap)
        /\ (q[2] = Len(ts) \/ ts[q[2] + 1] - ts[q[2]] > gap)}

\* [first, last] of the maximal runs that last at least len
LongRuns(ts, gap, len) ==
    {<<ts[q[1]], ts[q[2]]>> : q \in {r \in MaximalRuns(ts, gap) : ts[r[2]] - ts[r[1]] >= len}}

\* the k-th sensor file of the session at hand
SensorFile(k) == raw_files[sensors_of(session_df)[k].file_path]

\* the extent of f as the matching saw it: raw bounds plus the day's offset
FullExtent(f) == get_start_end_timestamp_w_offset(f, DayOffset(f))

C23_NoGapFullExtent ==
    pc = "trim" =>
        /\ \A k \in 1..Len(all_sensor_ts_segments) :
                LET f == SensorFile(k)
                IN  (f.device_type = CAMERA \/ ~HasGap(f.ts, config.max_time_gap)) =>
                        all_sensor_ts_segments[k] = <<FullExtent(f)>>
        /\ \A k \in 1..Len(session_df) :
                session_df[k].device_type = TIMER_APP =>
                    sensor_segments(session_df[k], raw_files, config)
                        = <<FullExtent(raw_files[session_df[k].file_path])>>

\* a session with a camera, an uninterrupted watch with an offset and a label file
C23_Witness ==
    /\ pc = "trim"
    /\ \E k \in 1..Len(all_sensor_ts_segments) : SensorFile(k).device_type = CAMERA
    /\ \E k \in 1..Len(all_sensor_ts_segments) :
          /\ SensorFile(k).device_type = WATCH
          /\ DayOffset(SensorFile(k)) # 0
          /\ all_sensor_ts_segments[k] = <<FullExtent(SensorFile(k))>>
    /\ \E k \in 1..Len(session_df) : session_df[k].device_type = TIMER_APP

\* C25: for every phone logger file every gap segment returned by
\* split_interrupted_ts lies within the file's extent: it starts no earlier than the
\* later of the gyroscope's and the accelerometer's first timestamps and ends no
\* later than the earlier of their last timestamps.
C25_PhoneSegmentsInExtent ==
    pc = "trim" =>
        \A k \in 1..Len(all_sensor_ts_segments) :
            LET f == SensorFile(k)
                sp == split_interrupted_ts(f, config)
            IN  (f.device_type = SENSOR_LOGGER /\ ~sp.none) =>
                    /\ all_sensor_ts_segments[k] = sp.segs
                    /\ \A j \in 1..Len(sp.segs) :
                            /\ get_start_end_timestamp_wo_offset(f)[1] <= sp.segs[j][1]
                            /\ sp.segs[j][2] <= get_start_end_timestamp_wo_offset(f)[2]

(***************************************************************************)
(* The target grid of the inertial devices                                 *)
(***************************************************************************)
\* the last trim_raw call resampled an inertial file onto a grid
GridBuilt ==
    /\ last_trim.called
    /\ ~last_trim.existed
    /\ last_trim.device_type \in {WATCH, SENSOR_LOGGER}
    /\ last_trim.start_ts <= last_trim.end_ts

\* C26: for a sub-session [start, end] with start <= end and a sampling rate that
\* divides 1000 the grid of an inertial trim has floor((end - start) * rate / 1000) + 1
\* timestamps, the i-th being start + i * (1000 / rate): the first is start,
\* consecutive ones are 1000 / rate apart, and the last is the latest such point
\* that does not exceed end.
C26_GridShape ==
    GridBuilt =>
        LET t == last_trim
            step == 1000 \div t.rate
            n == t.n_new_ts
        IN  /\ step * t.rate = 1000
            /\ n = ((t.end_ts - t.start_ts) * t.rate) \div 1000 + 1
            /\ new_ts(0, t.start_ts, t.rate) = t.start_ts
            /\ \A i \in 0..(n - 1) : new_ts(i, t.start_ts, t.rate) = t.start_ts + i * step
            /\ \A i \in 0..(n - 2) :
                    new_ts(i + 1, t.start_ts, t.rate) - new_ts(i, t.start_ts, t.rate) = step
            /\ new_ts(n - 1, t.start_ts, t.rate) <= t.end_ts
            /\ t.end_ts < new_ts(n - 1, t.start_ts, t.rate) + step

\* a phone trimmed at 8 Hz over a sub-session that is not a whole number of steps
C26_Witness ==
    /\ GridBuilt
    /\ last_trim.rate = 8
    /\ last_trim.n_new_ts > 2
    /\ new_ts(last_trim.n_new_ts - 1, last_trim.start_ts, last_trim.rate) < last_trim.end_ts

(***************************************************************************)
(* Matching: the closest candidate and the tolerance                       *)
(***************************************************************************)
\* both differences of file i from the logged bounds of r are below the tolerance
WithinTolerance(i, r) ==
    /\ StartDiff(i, r) < MatchTolerance * 1000
    /\ EndDiff(i, r) < MatchTolerance * 1000

\* C30 (as amended): the match of a role is decided by the one candidate of smallest
\* summed difference, the first of them in candidate order: the match fails when that
\* candidate has a difference of 180 seconds or more, whether or not another
\* candidate of the role is within the tolerance, and a session is trimmed only when
\* that candidate of every role is within the tolerance.
C30_ClosestCandidateDecides ==
    /\ (pc = "raised" /\ raised.error = ToleranceError) =>
            \E i \in RoleCandidates(log_df[row], raised.col) :
                /\ ClosestFirst(i, log_df[row], raised.col)
                /\ ~WithinTolerance(i, log_df[row])
    /\ (pc = "trim" /\ trims_in_session = 0 /\ dev_idx = 1) =>
            \A c \in UsedCols(log_df[row]) :
                \A i \in RoleCandidates(log_df[row], c) :
                    ClosestFirst(i, log_df[row], c) =>
                        /\ WithinTolerance(i, log_df[row])
                        /\ \E k \in 1..Len(session_df) : session_df[k].file_path = i

\* a camera role fails on its closest file while another file of the role is within
\* the tolerance
C30_Witness ==
    /\ pc = "raised"
    /\ raised.error = ToleranceError
    /\ SENSOR_COLS[raised.col].device_type = CAMERA
    /\ \E j \in RoleCandidates(log_df[row], raised.col) :
            /\ j # raised.file
            /\ WithinTolerance(j, log_df[row])

\* C30 as stated: when some candidate of a role has both differences within the
\* tolerance the match of the role succeeds.
C30_WithinCandidateMatches ==
    (pc = "raised" /\ raised.error = ToleranceError) =>
        ~\E j \in RoleCandidates(log_df[row], raised.col) : WithinTolerance(j, log_df[row])

(***************************************************************************)
(* interpolate_numeric_df                                                  *)
(***************************************************************************)
\* the target x lies within the raw timestamps
InRawDomain(x) == interp_df.ts[1] <= x /\ x <= interp_df.ts[Len(interp_df.ts)]

\* the value at x of the straight line through the raw samples j and j + 1 of column c
OnSegment(c, j, x) ==
    LET ts == interp_df.ts
        fp == interp_df.cols[c]
    IN  <<fp[j] * (ts[j + 1] - x) + fp[j + 1] * (x - ts[j]), ts[j + 1] - ts[j]>>

\* C27: for increasing raw timestamps and targets within the raw domain every value
\* column of the result holds, at each target, the value of the straight line between
\* the two raw samples of the same column that enclose the target, whatever the other
\* columns hold; asked for the raw timestamps themselves the result holds the raw
\* values, and a column y = 2t + 1 gives 2x + 1 at every target x.
C27_PiecewiseLinear ==
    /\ \A c \in 1..Len(new_df) :
            /\ Len(new_df[c]) = Len(new_timestamp)
            /\ \A k \in 1..Len(new_timestamp) :
                    InRawDomain(new_timestamp[k]) =>
                        /\ \A j \in 1..(Len(interp_df.ts) - 1) :
                                (/\ interp_df.ts[j] <= new_timestamp[k]
                                 /\ new_timestamp[k] <= interp_df.ts[j + 1]) =>
                                    FracEq(new_df[c][k], OnSegment(c, j, new_timestamp[k]))
                        /\ (\A i \in 1..Len(interp_df.ts) :
                                interp_df.cols[c][i] = 2 * interp_df.ts[i] + 1) =>
                                    FracEq(new_df[c][k], Frac(2 * new_timestamp[k] + 1))
            /\ new_timestamp = interp_df.ts =>
                    \A k \in 1..Len(new_timestamp) :
                        FracEq(new_df[c][k], Frac(interp_df.cols[c][k]))
    /\ interp_pc = "returned" => Len(new_df) = Len(interp_df.cols)

\* a returned DF of a linear and a curved column, evaluated strictly between two raw
\* samples that are more than one apart, where the curve's line does not give a whole
\* number
C27_Witness ==
    /\ interp_pc = "returned"
    /\ Len(new_df) = 2
    /\ \A i \in 1..Len(interp_df.ts) : interp_df.cols[1][i] = 2 * interp_df.ts[i] + 1
    /\ \E k \in 1..Len(new_timestamp) :
          /\ InRawDomain(new_timestamp[k])
          /\ new_timestamp[k] \notin {interp_df.ts[i] : i \in 1..Len(interp_df.ts)}
          /\ new_df[2][k][1] % new_df[2][k][2] # 0
          /\ ~FracEq(new_df[2][k], new_df[1][k])

(***************************************************************************)
(* trim_raw under concurrent processes                                     *)
(***************************************************************************)
\* the workers that have written the destination
Writers == {dest_writes[i] : i \in 1..Len(dest_writes)} \cap Workers

\* worker w is past its last existence check and has the write before it
AboutToWrite(w) == worker_pc[w] \in {"to_csv", "ffmpeg"}

\* C21: the existence check of trim_raw and the write are separate steps: a worker
\* that found the destination absent writes it at its writing step whatever the
\* destination has become since, so two workers that both checked before either
\* wrote both write; every writer's last check saw a destination no one had written,
\* and a worker that found the destination present never writes.
C21_CheckThenWrite ==
    /\ [](\A w \in Workers :
            /\ w \in Writers => checked_after[w] = 0
            /\ worker_pc[w] = "returned None" => w \notin Writers)
    /\ [][\A w \in Workers :
            (AboutToWrite(w) /\ worker_pc'[w] # worker_pc[w]) =>
                dest_writes' = Append(dest_writes, w)]_vars

\* two workers have written one destination, the second over the first's file
C21_Witness ==
    /\ Cardinality(Writers) >= 2
    /\ Len(dest_writes) >= 2
    /\ \A w \in Writers : checked_after[w] = 0
    /\ worker_device # CAMERA

====
